---- MODULE Spec2Model ----
(***************************************************************************)
(* The paged KV-cache backend (page_kv.c) over its page allocator          *)
(* (page_alloc.c, reproduced in README.md), driven by one worker thread    *)
(* per sequence (sim.c) and a main thread that reads the statistics and    *)
(* destroys the backend once the workers have been joined.                 *)
(***************************************************************************)
EXTENDS Integers, Sequences, FiniteSets, TLC

\* ------------------------------------------------------------------ bounds
NumWorkers == 2
TokensPerPage == 2
MaxContextTokens == 3
ArenaPages == 3
MaxGroups == 2

\* ------------------------------------------------------- program constants
NumLayers == 4
NumHeads == 8
HeadDim == 64
InitSlotsCapacity == 4
InitSeqCapacity == 16

\* ------------------------------------------------------------------- types
NULL == 0
NoThread == -1
NoId == -1
NoGroup == -1
Main == 0
Workers == 1..NumWorkers
Threads == 0..NumWorkers

Min(a, b) == IF a < b THEN a ELSE b
Max(a, b) == IF a > b THEN a ELSE b
CeilDiv(a, b) == (a + b - 1) \div b

\* static inline bytes_per_token(cfg); every size_t quantity of the model
\* stays far below 2^64, so size_t arithmetic is plain arithmetic here.
bytes_per_token == NumLayers * NumHeads * HeadDim * 2 * 2

\* page_allocator_create: page_bytes, num_pages; the arena holds ArenaPages
\* whole pages and a remainder smaller than one page.
page_bytes == TokensPerPage * bytes_per_token
arena_bytes == ArenaPages * page_bytes + (page_bytes - 1)
num_pages == arena_bytes \div page_bytes
Pages == 1..num_pages

\* The driver's count of append_token calls saturates here: every count above
\* the context ceiling behaves alike.
MaxCalls == MaxContextTokens + 1
\* Likewise its count of finish_sequence calls: none, one, more than one.
ManyFinishes == 2

\* The sequence-work records a worker may be handed: only the two fields the
\* backend reads.  Token counts cover: no prefix, a request that floors to
\* zero, an unaligned request of one page, and an aligned request of one page
\* more than the context ceiling spans.  Group ids cover: no sharing, two
\* groups, and an id at or beyond num_groups.
SharedTokenChoices ==
    {0, TokensPerPage - 1, TokensPerPage + 1,
     (CeilDiv(MaxContextTokens, TokensPerPage) + 1) * TokensPerPage}
SharedIdChoices == {-1, 0, 1, MaxGroups}
WorkChoices ==
    [shared_prompt_tokens : SharedTokenChoices, shared_prompt_id : SharedIdChoices]
NoWork == [shared_prompt_tokens |-> 0, shared_prompt_id |-> -2]

VARIABLES
    \* PageAllocator
    ref, free_list, alloc_mutex,
    \* PagedKVImpl
    seqs, num_seqs, seq_capacity, groups, num_groups, mutex,
    \* per thread: position, arguments and locals
    pc, id, work, calls, finishes, i, p, idx, tmp, ret, gid, shared_tokens, pref,
    \* main thread
    d, st,
    \* process
    fatal,
    \* observer: the run being measured from its init_sequence on
    snap,
    \* the heap, where addresses matter: the blocks impl->seqs has pointed to,
    \* the address it holds now, the PageSlot arrays, and each thread's local
    \* pointer s
    blocks, seqs_addr, slot_arrays, s_addr,
    \* the monolithic backend: MonoKVImpl, each thread's position, id and count
    \* of calls, and the statistics run_simulation returns for it
    mono_cfg, mono_seqs, mono_num_seqs, mono_capacity, mono_mutex,
    mono_pc, mono_id, mono_calls, mono_finishes, mono_st,
    \* run_simulation: the append_token calls each decode thread has yet to make
    todo,
    \* main: what the last print_stats call wrote
    out

alloc_vars == <<ref, free_list, alloc_mutex>>
impl_vars == <<seqs, num_seqs, seq_capacity, groups, num_groups, mutex>>
local_vars == <<id, work, calls, finishes, i, p, idx, tmp, ret, gid, shared_tokens, pref>>
main_vars == <<d, st>>
heap_vars == <<blocks, seqs_addr, slot_arrays, s_addr>>
mono_vars == <<mono_cfg, mono_seqs, mono_num_seqs, mono_capacity, mono_mutex,
               mono_pc, mono_id, mono_calls, mono_finishes, mono_st>>
sim_vars == <<todo, out>>
aux_vars == <<heap_vars, mono_vars, sim_vars>>
vars == <<alloc_vars, impl_vars, pc, local_vars, main_vars, fatal, snap, aux_vars>>

\* -------------------------------------------------------------- structures
\* PagedSeqState; slots_capacity is Len(slots), slot k is slots[k + 1].
ZeroSeq == [slots |-> <<>>, cur_tokens |-> 0, shared_prefix_tokens |-> 0]
\* SharedPrefix, as calloc leaves it
ZeroPrefix == [pages |-> <<>>, num_pages |-> 0, prefix_tokens |-> 0, initialized |-> FALSE]
ZeroStats == [logical_tokens |-> 0, logical_bytes |-> 0, physical_bytes |-> 0]
\* The decode thread has not been handed its work.
NotCreated == -1
\* print_stats has not been called.
NoOutput == [name |-> "none"]
\* No run is being measured.
NoSnap == [t |-> NoThread, before |-> 0, built |-> FALSE, grp |-> NoGroup]

slots_capacity(s) == Len(s.slots)
Slot(s, k) == s.slots[k + 1]

RECURSIVE DoubleUntil(_, _)
DoubleUntil(cap, n) == IF cap >= n THEN cap ELSE DoubleUntil(cap * 2, n)

\* paged_seq_reserve_slots
paged_seq_reserve_slots(s, n) ==
    IF n <= slots_capacity(s) THEN s
    ELSE LET first == IF slots_capacity(s) = 0 THEN InitSlotsCapacity
                      ELSE slots_capacity(s) * 2
             new_cap == DoubleUntil(first, n)
         IN [s EXCEPT !.slots =
                [k \in 1..new_cap |-> IF k <= slots_capacity(s) THEN s.slots[k] ELSE NULL]]

\* A prefix length taken from the request as it stands.
UnflooredTokens(tokens) == tokens

\* shareable_tokens
shareable_tokens(tokens) ==
    IF TokensPerPage = 0 THEN 0 ELSE (tokens \div TokensPerPage) * TokensPerPage

\* A build that takes one page more than the prefix spans.
OnePageMore(prefix_tokens) == prefix_tokens \div TokensPerPage + 1

\* build_shared_prefix: the number of pages it allocates
pages_needed(prefix_tokens) == (prefix_tokens + TokensPerPage - 1) \div TokensPerPage

\* A count that adds up the reference counts themselves.
RECURSIVE CountRefs(_, _)
CountRefs(r, n) == IF n = 0 THEN 0 ELSE CountRefs(r, n - 1) + r[n]

\* page_allocator_pages_in_use: the loop over the descriptors
RECURSIVE CountUsed(_, _)
CountUsed(r, n) == IF n = 0 THEN 0 ELSE CountUsed(r, n - 1) + (IF r[n] > 0 THEN 1 ELSE 0)
page_allocator_pages_in_use == CountUsed(ref, num_pages)

\* paged_stats: the sum over the sequences
RECURSIVE SumTokens(_, _)
SumTokens(ss, n) == IF n = 0 THEN 0 ELSE SumTokens(ss, n - 1) + ss[n - 1].cur_tokens

\* ------------------------------------------------------------------- Init
\* create_paged_backend: page_allocator_create pushes pages[0..n-1] onto the
\* free list in order; paged_init_prefix_groups zeroes the group table.
Init ==
    /\ ref = [q \in Pages |-> 0]
    /\ free_list = [k \in 1..num_pages |-> k]
    /\ alloc_mutex = NoThread
    /\ seqs = [k \in {} |-> ZeroSeq]
    /\ num_seqs = 0
    /\ seq_capacity = 0
    /\ num_groups \in {0, MaxGroups}
    /\ groups = [g \in 0..(num_groups - 1) |-> ZeroPrefix]
    /\ mutex = NoThread
    /\ pc = [t \in Threads |-> IF t = Main THEN "join" ELSE "start"]
    /\ id = [t \in Threads |-> NoId]
    /\ work = [t \in Threads |-> NoWork]
    /\ calls = [t \in Threads |-> 0]
    /\ finishes = [t \in Threads |-> 0]
    /\ i = [t \in Threads |-> 0]
    /\ p = [t \in Threads |-> NULL]
    /\ idx = [t \in Threads |-> 0]
    /\ tmp = [t \in Threads |-> 0]
    /\ ret = [t \in Threads |-> "none"]
    /\ gid = [t \in Threads |-> NoGroup]
    /\ shared_tokens = [t \in Threads |-> 0]
    /\ pref = [t \in Threads |-> ZeroPrefix]
    /\ d = 0
    /\ st = ZeroStats
    /\ fatal = "none"
    /\ snap = NoSnap
    /\ blocks = <<>>
    /\ seqs_addr = NULL
    /\ slot_arrays = <<>>
    /\ s_addr = [t \in Threads |-> NULL]
    /\ mono_cfg = [max_context_tokens |-> 0, num_sequences |-> 0]
    /\ mono_seqs = <<>>
    /\ mono_num_seqs = 0
    /\ mono_capacity = 0
    /\ mono_mutex = NoThread
    /\ mono_pc = [t \in Threads |-> IF t = Main THEN "create" ELSE "start"]
    /\ mono_id = [t \in Threads |-> NoId]
    /\ mono_calls = [t \in Threads |-> 0]
    /\ mono_finishes = [t \in Threads |-> 0]
    /\ mono_st = ZeroStats
    /\ todo = [t \in Threads |-> NotCreated]
    /\ out = NoOutput

Running == fatal = "none"

\* ------------------------------------------------------ control transfers
\* The variables a call or a return may touch, as one record: each operator
\* below takes the values reached so far and gives the values at the next
\* point where the thread can be interleaved with.
Here ==
    [pc |-> pc, p |-> p, i |-> i, ret |-> ret, id |-> id, gid |-> gid, pref |-> pref,
     shared_tokens |-> shared_tokens, seqs |-> seqs, groups |-> groups,
     mutex |-> mutex, d |-> d]

Goto(r) ==
    \E x \in {r} :
        /\ pc' = x.pc
        /\ p' = x.p
        /\ i' = x.i
        /\ ret' = x.ret
        /\ id' = x.id
        /\ gid' = x.gid
        /\ pref' = x.pref
        /\ shared_tokens' = x.shared_tokens
        /\ seqs' = x.seqs
        /\ groups' = x.groups
        /\ mutex' = x.mutex
        /\ d' = x.d

\* paged_init_sequence lines 126-131: at the head of the attach loop either
\* call page_inc_ref on the next prefix page or, past the last one, record
\* the prefix length.
AttachLoop(t, r) ==
    LET g == r.groups[r.gid[t]]
    IN IF r.i[t] < g.num_pages
       THEN [r EXCEPT !.p[t] = g.pages[r.i[t] + 1],
                      !.ret[t] = "attach",
                      !.pc[t] = "inc_ref"]
       ELSE [r EXCEPT !.seqs[r.id[t]].shared_prefix_tokens = r.shared_tokens[t],
                      !.p[t] = NULL,
                      !.ret[t] = "none",
                      !.pc[t] = "init_unlock"]

\* An attach that takes the reference but leaves the slot empty.
AttachSkip(t, r) == AttachLoop(t, [r EXCEPT !.i[t] = @ + 1])

\* Line 129 and the loop increment: s->slots[i].page = p; ++i.
AttachStore(t, r) ==
    AttachLoop(t, [r EXCEPT !.seqs[r.id[t]].slots[r.i[t] + 1] = r.p[t],
                            !.i[t] = @ + 1])

\* An attach that records the length the request asked for.
RequestKept(g, tokens) == tokens

\* Lines 121-123: a request that disagrees with the built entry adopts the
\* entry's prefix length.
AdoptedTokens(g, tokens) == IF g.prefix_tokens # tokens THEN g.prefix_tokens ELSE tokens

\* Lines 121-125, then the attach loop.
AttachPrefix(t, r) ==
    LET g == r.groups[r.gid[t]]
    IN AttachLoop(t, [r EXCEPT !.shared_tokens[t] = AdoptedTokens(g, @),
                               !.seqs[r.id[t]] = paged_seq_reserve_slots(@, g.num_pages),
                               !.i[t] = 0])

\* build_shared_prefix lines 59-67 and its caller's line 119: call page_alloc
\* until pages_needed pages are held, then store the entry into the table.
\* (The prefix_tokens == 0 return of line 55 is never taken: line 115 admits
\* only shared_tokens > 0.)
BuildLoop(t, r) ==
    IF Len(r.pref[t].pages) < pages_needed(r.shared_tokens[t])
    THEN [r EXCEPT !.ret[t] = "build", !.pc[t] = "alloc_pop"]
    ELSE AttachPrefix(t, [r EXCEPT !.groups[r.gid[t]] =
                                       [pages |-> r.pref[t].pages,
                                        num_pages |-> pages_needed(r.shared_tokens[t]),
                                        prefix_tokens |-> r.shared_tokens[t],
                                        initialized |-> TRUE],
                                   !.pref[t] = ZeroPrefix])

\* Line 65: pref.pages[i] = page_alloc(...); ++i.
BuildStore(t, r) ==
    BuildLoop(t, [r EXCEPT !.pref[t].pages = Append(@, r.p[t]), !.p[t] = NULL])

\* paged_append_token lines 156-158: store the fresh page, unlock.
AppendStore(t, r) ==
    [r EXCEPT !.seqs[r.id[t]].slots[(idx[t] \div TokensPerPage) + 1] = r.p[t],
              !.mutex = NoThread,
              !.p[t] = NULL,
              !.ret[t] = "none",
              !.pc[t] = "append_publish"]

\* A finish that finds no slot to release.
NonePopulated(s, k) == slots_capacity(s)

\* The first slot at or after k that holds a page (slots_capacity if none).
RECURSIVE NextPopulated(_, _)
NextPopulated(s, k) ==
    IF k >= slots_capacity(s) \/ Slot(s, k) # NULL THEN k ELSE NextPopulated(s, k + 1)

\* The worker that was issued sequence id k.
Owner(k) == k + 1

\* paged_finish_sequence lines 176-178: reset the counters, unlock, return:
\* to the worker's driver or, in paged_destroy, to line 202 and the next i.
\* The sequence is no longer attached to a group.
FinishReset(t, r) ==
    [r EXCEPT !.seqs[r.id[t]] = [@ EXCEPT !.cur_tokens = 0, !.shared_prefix_tokens = 0],
              !.mutex = NoThread,
              !.i[t] = 0,
              !.p[t] = NULL,
              !.ret[t] = "none",
              !.gid[Owner(r.id[t])] = NoGroup,
              !.id[t] = IF t = Main THEN NoId ELSE @,
              !.d = IF t = Main THEN @ + 1 ELSE @,
              !.pc[t] = IF t = Main THEN "destroy_seqs" ELSE "finished"]

\* Lines 170-172: skip the empty slots; call page_dec_ref on the next
\* populated one; past the last slot, finish.
FinishLoop(t, r) ==
    LET s == r.seqs[r.id[t]]
        k == NextPopulated(s, r.i[t])
    IN IF k < slots_capacity(s)
       THEN [r EXCEPT !.i[t] = k,
                      !.p[t] = Slot(s, k),
                      !.ret[t] = "finish",
                      !.pc[t] = "dec_ref"]
       ELSE FinishReset(t, r)

\* A finish that leaves the page pointer in the slot.
KeptSlot(page) == page

\* What line 173 leaves in the slot.
ClearedSlot(page) == NULL

\* Line 173 and the loop increment: s->slots[i].page = NULL; ++i.
FinishClear(t, r) ==
    FinishLoop(t, [r EXCEPT !.seqs[r.id[t]].slots[r.i[t] + 1] = ClearedSlot(@),
                            !.i[t] = @ + 1])

\* A destroy that frees the group table without releasing its pages.
NoGroupRelease(r) ==
    [r EXCEPT !.d = 0, !.i[Main] = 0, !.p[Main] = NULL, !.ret[Main] = "none",
              !.pc[Main] = "destroyed"]

\* paged_destroy lines 206-213: skip the groups never initialized; call
\* page_dec_ref on the next page of the next initialized group; past the
\* last group the backend is gone.
RECURSIVE DestroyGroups(_)
DestroyGroups(r) ==
    IF r.d >= num_groups
    THEN [r EXCEPT !.d = 0, !.i[Main] = 0, !.p[Main] = NULL, !.ret[Main] = "none",
                   !.pc[Main] = "destroyed"]
    ELSE IF r.groups[r.d].initialized /\ r.i[Main] < r.groups[r.d].num_pages
    THEN [r EXCEPT !.p[Main] = r.groups[r.d].pages[r.i[Main] + 1],
                   !.ret[Main] = "destroy",
                   !.pc[Main] = "dec_ref"]
    ELSE DestroyGroups([r EXCEPT !.d = @ + 1, !.i[Main] = 0])

\* ++i of the loop of line 209.
DestroyGroupNext(r) == DestroyGroups([r EXCEPT !.i[Main] = @ + 1])

\* A page_alloc that comes back from an empty free list with the process
\* still running.
StillRunning == "none"

\* page_alloc line 99: abort() on an empty free list.
Aborted == "out_of_pages"

\* ---------------------------------------------------------- page allocator
\* page_alloc, first half: take the allocator mutex; abort on an empty free
\* list, else pop the tail of the free list.
PageAllocPop(t) ==
    /\ Running
    /\ pc[t] = "alloc_pop"
    /\ alloc_mutex = NoThread
    /\ IF Len(free_list) = 0
       THEN /\ fatal' = Aborted
            /\ UNCHANGED <<alloc_vars, p, pc>>
       ELSE /\ alloc_mutex' = t
            /\ p' = [p EXCEPT ![t] = free_list[Len(free_list)]]
            /\ free_list' = SubSeq(free_list, 1, Len(free_list) - 1)
            /\ pc' = [pc EXCEPT ![t] = "alloc_ref"]
            /\ UNCHANGED <<ref, fatal>>
    /\ UNCHANGED <<impl_vars, id, work, calls, finishes, i, idx, tmp, ret, gid,
                   shared_tokens, pref, main_vars>>

\* page_alloc, second half: p->ref = 1, unlock, return p to the caller, which
\* stores it (build_shared_prefix line 65, paged_append_token line 156).
PageAllocRef(t) ==
    /\ Running
    /\ pc[t] = "alloc_ref"
    /\ ref' = [ref EXCEPT ![p[t]] = 1]
    /\ alloc_mutex' = NoThread
    /\ Goto(IF ret[t] = "build" THEN BuildStore(t, Here) ELSE AppendStore(t, Here))
    /\ idx' = idx
    /\ UNCHANGED <<free_list, num_seqs, seq_capacity, num_groups, work, calls,
                   finishes, tmp, st, fatal>>

\* page_dec_ref, first half: take the allocator mutex; abort on a page whose
\* count is already 0, else decrement.
PageDecRefDec(t) ==
    /\ Running
    /\ pc[t] = "dec_ref"
    /\ alloc_mutex = NoThread
    /\ IF ref[p[t]] = 0
       THEN /\ fatal' = "refcount_underflow"
            /\ UNCHANGED <<alloc_vars, pc>>
       ELSE /\ alloc_mutex' = t
            /\ ref' = [ref EXCEPT ![p[t]] = @ - 1]
            /\ pc' = [pc EXCEPT ![t] = "dec_push"]
            /\ UNCHANGED <<free_list, fatal>>
    /\ UNCHANGED <<impl_vars, local_vars, main_vars>>

\* A release that puts the page at the bottom of the free list.
PushBelow(fl, r, q) == IF r[q] = 0 THEN <<q>> \o fl ELSE fl

\* A release that pushes the page whatever its count.
PushAlways(fl, r, q) == Append(fl, q)

\* page_dec_ref lines 120-122: the free list after the decrement of page q.
PushOnZero(fl, r, q) == IF r[q] = 0 THEN Append(fl, q) ELSE fl

\* page_dec_ref, second half: push the page when its count reached 0, unlock,
\* return to the caller (paged_finish_sequence line 173, paged_destroy line
\* 209).
PageDecRefPush(t) ==
    /\ Running
    /\ pc[t] = "dec_push"
    /\ free_list' = PushOnZero(free_list, ref, p[t])
    /\ alloc_mutex' = NoThread
    /\ Goto(IF ret[t] = "finish" THEN FinishClear(t, Here) ELSE DestroyGroupNext(Here))
    /\ UNCHANGED <<ref, num_seqs, seq_capacity, num_groups, work, calls, finishes,
                   idx, tmp, st, fatal>>

\* An increment that writes back the value it read.
NotIncremented(v) == v

\* page_inc_ref line 110: the value p->ref++ writes back.
Incremented(v) == v + 1

\* page_inc_ref: p->ref++ is a plain read ...
PageIncRefRead(t) ==
    /\ Running
    /\ pc[t] = "inc_ref"
    /\ tmp' = [tmp EXCEPT ![t] = ref[p[t]]]
    /\ pc' = [pc EXCEPT ![t] = "inc_write"]
    /\ UNCHANGED <<alloc_vars, impl_vars, id, work, calls, finishes, i, p, idx, ret,
                   gid, shared_tokens, pref, main_vars, fatal>>

\* ... followed by a plain write, and the return to paged_init_sequence line
\* 129.
PageIncRefWrite(t) ==
    /\ Running
    /\ pc[t] = "inc_write"
    /\ ref' = [ref EXCEPT ![p[t]] = Incremented(tmp[t])]
    /\ tmp' = [tmp EXCEPT ![t] = 0]
    /\ Goto(AttachStore(t, Here))
    /\ UNCHANGED <<free_list, alloc_mutex, num_seqs, seq_capacity, num_groups, work,
                   calls, finishes, idx, st, fatal>>

\* ----------------------------------------------------- paged_init_sequence
\* An init_sequence that runs without holding the backend mutex.
NotLocked(t) == NoThread

\* Line 88: the holder of the backend mutex once pthread_mutex_lock returns.
LockedBy(t) == t

\* The seq_capacity after the growth of lines 90-105.
GrownSeqCapacity ==
    IF num_seqs = seq_capacity
    THEN (IF seq_capacity = 0 THEN InitSeqCapacity ELSE seq_capacity * 2)
    ELSE seq_capacity

\* An init that hands out the count without advancing it.
NumSeqsKept(n) == n

\* Line 107: impl->num_seqs++, the count after the id is issued.
NextNumSeqs(n) == n + 1

\* A request length taken without looking at the sign of the id.
TokensOfAnyId(w) == shareable_tokens(w.shared_prompt_tokens)

\* Line 113: the floored prefix length of a request; 0 for a negative id.
RequestedTokens(w) ==
    IF w.shared_prompt_id >= 0 THEN shareable_tokens(w.shared_prompt_tokens) ELSE 0

\* Line 115: whether the request shares a prefix.
WantsPrefix(tokens) == tokens > 0 /\ num_groups > 0

\* An init that builds the entry anew for every request.
AlwaysBuild(g) == TRUE

\* Line 118: whether the group's entry has yet to be built.
NeedsBuild(g) == ~g.initialized

\* A group index that is cut off at the last entry instead of wrapping.
GroupClamped(shared_id) == Min(shared_id, num_groups - 1)

\* Line 116: the group of a request.
GroupOf(shared_id) == shared_id % num_groups

\* Lines 88-120: lock, grow the vector, issue the id, reset the entry, floor
\* the shared prefix, pick the group, and build its entry when it is new.
\* Workers that have not yet called init_sequence hold no state and are
\* interchangeable, so they are numbered in the order in which they win the
\* backend mutex: worker t is the t-th to be issued an id.
InitSequence(t) ==
    /\ Running
    /\ t \in Workers
    /\ pc[t] = "start"
    /\ t = num_seqs + 1
    /\ mutex = NoThread
    /\ \E w \in WorkChoices :
         LET tokens == RequestedTokens(w)
             r == [Here EXCEPT
                     !.mutex = LockedBy(t),
                     !.id[t] = num_seqs,
                     !.seqs = [k \in 0..num_seqs |->
                                 IF k < num_seqs THEN seqs[k] ELSE ZeroSeq],
                     !.shared_tokens[t] = tokens]
         IN /\ work' = [work EXCEPT ![t] = w]
            /\ IF WantsPrefix(tokens)
               THEN LET g == GroupOf(w.shared_prompt_id)
                        rg == [r EXCEPT !.gid[t] = g]
                    IN IF NeedsBuild(groups[g])
                       THEN Goto(BuildLoop(t, rg))
                       ELSE Goto(AttachPrefix(t, rg))
               ELSE Goto([r EXCEPT !.pc[t] = "init_unlock"])
    /\ seq_capacity' = GrownSeqCapacity
    /\ num_seqs' = NextNumSeqs(num_seqs)
    /\ UNCHANGED <<alloc_vars, num_groups, calls, finishes, idx, tmp, st, fatal>>

\* Lines 134-135: unlock and return the id.  The work record and the locals
\* of the call are dead from here on; gid stays as the record of the group
\* the sequence took its prefix from.
InitUnlock(t) ==
    /\ Running
    /\ pc[t] = "init_unlock"
    /\ mutex' = NoThread
    /\ pc' = [pc EXCEPT ![t] = "ready"]
    /\ work' = [work EXCEPT ![t] = NoWork]
    /\ i' = [i EXCEPT ![t] = 0]
    /\ shared_tokens' = [shared_tokens EXCEPT ![t] = 0]
    /\ UNCHANGED <<alloc_vars, seqs, num_seqs, seq_capacity, groups, num_groups,
                   id, calls, finishes, p, idx, tmp, ret, gid, pref, main_vars, fatal>>

\* ------------------------------------------------------ paged_append_token
\* A ceiling test that is off by one.
PastCeiling(s) == s.cur_tokens > MaxContextTokens

\* Line 142: append is a no-op at the context ceiling.
AtCeiling(s) == s.cur_tokens >= MaxContextTokens

\* An append that takes a fresh page for every token.
AlwaysNeedsPage(s, page_idx) == TRUE

\* An append that never takes the locked path.
NeverNeedsPage(s, page_idx) == FALSE

\* Line 150: whether the token's slot is yet to be populated.
NeedsPage(s, page_idx) == page_idx >= slots_capacity(s) \/ Slot(s, page_idx) = NULL

\* Lines 140-156 and, on the lock-free path, line 161: return at the ceiling;
\* otherwise read idx and either publish idx + 1 at once (slot populated) or
\* take the backend mutex, grow the slot table and, the slot being empty,
\* call page_alloc.  Choosing the locked path reads only what the calling
\* thread alone writes, so the choice is taken together with the lock; the
\* slot is then still empty at line 155.
AppendToken(t) ==
    /\ Running
    /\ t \in Workers
    /\ pc[t] = "ready"
    /\ calls' = [calls EXCEPT ![t] = Min(@ + 1, MaxCalls)]
    /\ LET s == seqs[id[t]]
           page_idx == s.cur_tokens \div TokensPerPage
       IN IF AtCeiling(s)
          THEN UNCHANGED <<seqs, idx, pc, mutex, ret>>
          ELSE IF NeedsPage(s, page_idx)
               THEN /\ mutex = NoThread
                    /\ mutex' = t
                    /\ idx' = [idx EXCEPT ![t] = s.cur_tokens]
                    /\ seqs' = [seqs EXCEPT ![id[t]] =
                                  IF page_idx >= slots_capacity(s)
                                  THEN paged_seq_reserve_slots(s, page_idx + 1)
                                  ELSE s]
                    /\ ret' = [ret EXCEPT ![t] = "append"]
                    /\ pc' = [pc EXCEPT ![t] = "alloc_pop"]
               ELSE /\ seqs' = [seqs EXCEPT ![id[t]].cur_tokens = s.cur_tokens + 1]
                    /\ UNCHANGED <<idx, pc, mutex, ret>>
    /\ UNCHANGED <<alloc_vars, num_seqs, seq_capacity, groups, num_groups, id,
                   work, finishes, i, p, tmp, gid, shared_tokens, pref, main_vars,
                   fatal>>

\* Line 161 on the locked path: s->cur_tokens = idx + 1.
AppendPublish(t) ==
    /\ Running
    /\ pc[t] = "append_publish"
    /\ seqs' = [seqs EXCEPT ![id[t]].cur_tokens = idx[t] + 1]
    /\ idx' = [idx EXCEPT ![t] = 0]
    /\ pc' = [pc EXCEPT ![t] = "ready"]
    /\ UNCHANGED <<alloc_vars, num_seqs, seq_capacity, groups, num_groups, mutex,
                   id, work, calls, finishes, i, p, tmp, ret, gid, shared_tokens, pref,
                   main_vars, fatal>>

\* ---------------------------------------------------- paged_finish_sequence
\* Lines 166-170, called by a worker on its own sequence, any number of
\* times: the range check passes, the backend mutex is taken, the loop runs.
\* The driver makes its appends before its first finish: a finished sequence
\* differs from a freshly initialised one without a prefix in its slot
\* capacity alone.
FinishSequence(t) ==
    /\ Running
    /\ t \in Workers
    /\ pc[t] \in {"ready", "finished"}
    /\ id[t] < num_seqs
    /\ mutex = NoThread
    /\ finishes' = [finishes EXCEPT ![t] = Min(@ + 1, ManyFinishes)]
    /\ calls' = [calls EXCEPT ![t] = 0]
    /\ Goto(FinishLoop(t, [Here EXCEPT !.mutex = t, !.i[t] = 0]))
    /\ UNCHANGED <<alloc_vars, num_seqs, seq_capacity, num_groups, work, idx, tmp, st,
                   fatal>>

\* ------------------------------------------------------------------ driver
\* A worker between two calls of the backend, where decode_thread may return.
AtRest(t) == pc[t] \in {"ready", "finished"}

\* The most finish_sequence calls any one worker made (saturating).
RECURSIVE MostFinishes(_)
MostFinishes(ts) ==
    IF ts = {} THEN 0
    ELSE LET t == CHOOSE t \in ts : TRUE
         IN Max(finishes[t], MostFinishes(ts \ {t}))

\* run_simulation lines 62-69: every worker has made its last call and
\* returned, the main thread has joined them all and calls paged_stats.  A
\* worker's return touches nothing another thread reads before the join, so
\* the returns are taken together with the join, and with the workers gone
\* nothing runs between the join and the statistics.  The workers' call
\* counts end with them; the main thread keeps the largest finish count.
JoinWorkers ==
    /\ Running
    /\ pc[Main] = "join"
    /\ \A t \in Workers : AtRest(t)
    /\ mutex = NoThread
    /\ alloc_mutex = NoThread
    /\ LET logical_tokens == SumTokens(seqs, num_seqs)
       IN st' = [logical_tokens |-> logical_tokens,
                 logical_bytes |-> logical_tokens * bytes_per_token,
                 physical_bytes |-> page_allocator_pages_in_use * page_bytes]
    /\ pc' = [t \in Threads |-> IF t = Main THEN "destroy_seqs" ELSE "done"]
    /\ calls' = [t \in Threads |-> 0]
    /\ finishes' = [t \in Threads |-> IF t = Main THEN MostFinishes(Workers) ELSE 0]
    /\ UNCHANGED <<alloc_vars, impl_vars, id, work, i, p, idx, tmp, ret, gid,
                   shared_tokens, pref, d, fatal>>

\* paged_destroy lines 200-201: finish_sequence(i) for the next sequence;
\* past the last sequence, on to the groups.
DestroySeqs ==
    /\ Running
    /\ pc[Main] = "destroy_seqs"
    /\ IF d < num_seqs
       THEN /\ mutex = NoThread
            /\ Goto(FinishLoop(Main, [Here EXCEPT !.mutex = Main, !.id[Main] = d,
                                                  !.i[Main] = 0]))
       ELSE Goto(DestroyGroups([Here EXCEPT !.d = 0, !.i[Main] = 0]))
    /\ UNCHANGED <<alloc_vars, num_seqs, seq_capacity, num_groups, work, calls,
                   finishes, idx, tmp, st, fatal>>

\* ------------------------------------------------------------ specification
\* The steps of worker t's calls into the backend.
Call(t) ==
    \/ PageAllocPop(t)
    \/ PageAllocRef(t)
    \/ PageDecRefDec(t)
    \/ PageDecRefPush(t)
    \/ PageIncRefRead(t)
    \/ PageIncRefWrite(t)
    \/ InitSequence(t)
    \/ InitUnlock(t)
    \/ AppendToken(t)
    \/ AppendPublish(t)
    \/ FinishSequence(t)

\* run_simulation: the workers' calls interleave freely; the main thread
\* joins them, reads the statistics and destroys the backend.
Next ==
    \/ \E t \in Threads : PageAllocPop(t) /\ UNCHANGED <<snap, aux_vars>>
    \/ \E t \in Threads : PageAllocRef(t) /\ UNCHANGED <<snap, aux_vars>>
    \/ \E t \in Threads : PageDecRefDec(t) /\ UNCHANGED <<snap, aux_vars>>
    \/ \E t \in Threads : PageDecRefPush(t) /\ UNCHANGED <<snap, aux_vars>>
    \/ \E t \in Threads : PageIncRefRead(t) /\ UNCHANGED <<snap, aux_vars>>
    \/ \E t \in Threads : PageIncRefWrite(t) /\ UNCHANGED <<snap, aux_vars>>
    \/ \E t \in Threads : InitSequence(t) /\ UNCHANGED <<snap, aux_vars>>
    \/ \E t \in Threads : InitUnlock(t) /\ UNCHANGED <<snap, aux_vars>>
    \/ \E t \in Threads : AppendToken(t) /\ UNCHANGED <<snap, aux_vars>>
    \/ \E t \in Threads : AppendPublish(t) /\ UNCHANGED <<snap, aux_vars>>
    \/ \E t \in Threads : FinishSequence(t) /\ UNCHANGED <<snap, aux_vars>>
    \/ JoinWorkers /\ UNCHANGED <<snap, aux_vars>>
    \/ DestroySeqs /\ UNCHANGED <<snap, aux_vars>>

Spec == Init /\ [][Next]_vars

\* A driver that makes one call at a time: a worker steps only while every
\* other worker is between two calls.  An init_sequence call starts the
\* measurement of its sequence's run: pages_in_use before the call, and
\* whether a group entry becomes initialized during the run.  The measurement
\* ends with the first step after the run's finish_sequence has returned, or
\* with any call of another worker.
BetweenCalls(u) == pc[u] \in {"start", "ready", "finished"}
GroupBuiltNow == \E g \in DOMAIN groups : ~groups[g].initialized /\ groups'[g].initialized
Measured(t) ==
    IF pc[t] = "start"
    THEN [t |-> t, before |-> page_allocator_pages_in_use, built |-> GroupBuiltNow,
          grp |-> gid'[t]]
    ELSE IF snap.t = t /\ pc[t] # "finished"
    THEN [snap EXCEPT !.built = @ \/ GroupBuiltNow]
    ELSE NoSnap

SoloNext ==
    \E t \in Workers :
        /\ \A u \in Workers \ {t} : BetweenCalls(u)
        /\ Call(t)
        /\ snap' = Measured(t)
        /\ UNCHANGED aux_vars

SoloSpec == Init /\ [][SoloNext]_vars

\* ------------------------------------------------------------- properties
PagesInUse == {q \in Pages : ref[q] > 0}
OnFreeList(q) == \E k \in DOMAIN free_list : free_list[k] = q

\* C1 (allocator conservation): whenever the allocator mutex is free, the
\* length of the free list plus the number of pages with a positive count is
\* num_pages, a page is on the free list exactly when its count is 0, and no
\* page is on the free list twice.
C1_AllocatorConservation ==
    alloc_mutex = NoThread =>
        /\ Len(free_list) + Cardinality(PagesInUse) = num_pages
        /\ \A q \in Pages : OnFreeList(q) <=> ref[q] = 0
        /\ \A j, k \in DOMAIN free_list : j # k => free_list[j] # free_list[k]

\* A page is shared while another has gone back to the free list out of the
\* order in which the pages were first pushed.
C1_Witness ==
    /\ alloc_mutex = NoThread
    /\ \E q \in Pages : ref[q] >= 2
    /\ \E k \in DOMAIN free_list : free_list[k] # k

\* C2 (refcount non-negativity): page_dec_ref never meets a page whose count
\* is already 0, repeated finish_sequence calls and the destroy included.
C2_NoRefcountUnderflow == fatal # "refcount_underflow"

\* The backend has been destroyed after a worker finished its sequence more
\* than once (and paged_destroy finished it once more) and a group was built.
C2_Witness ==
    /\ pc[Main] = "destroyed"
    /\ finishes[Main] = ManyFinishes
    /\ \E g \in DOMAIN groups : groups[g].initialized

\* The slots that hold page q, as <<sequence id, slot>> pairs.
SlotRefs(q) ==
    UNION {{<<k, j>> : j \in {j \in DOMAIN seqs[k].slots : seqs[k].slots[j] = q}} :
           k \in DOMAIN seqs}
ListedIn(g, q) ==
    groups[g].initialized /\ \E j \in 1..groups[g].num_pages : groups[g].pages[j] = q
TableShare(q) == IF \E g \in DOMAIN groups : ListedIn(g, q) THEN 1 ELSE 0
\* paged_destroy has not begun to release the group table's own references.
TableSharesHeld == pc[Main] # "destroyed" /\ ret[Main] # "destroy"
AttachedTo(g) == {t \in Workers : gid[t] = g}

RefcountsMatchHolders ==
    /\ \A q \in Pages : ref[q] = Cardinality(SlotRefs(q)) + TableShare(q)
    /\ \A g \in DOMAIN groups : \A q \in Pages :
           ListedIn(g, q) => ref[q] = Cardinality(AttachedTo(g)) + 1

InFinish(k) ==
    \E t \in Threads : id[t] = k /\ ret[t] = "finish" /\ pc[t] \in {"dec_ref", "dec_push"}
\* Worker t is inside paged_init_sequence.
InInit(t) ==
    \/ pc[t] \in {"init_unlock", "inc_ref", "inc_write"}
    \/ pc[t] \in {"alloc_pop", "alloc_ref"} /\ ret[t] = "build"
\* Worker t's sequence took a prefix from a group, its init has returned, and
\* no finish_sequence has begun on it.
Attached(t) ==
    /\ gid[t] # NoGroup
    /\ pc[t] # "start"
    /\ ~InInit(t)
    /\ ~InFinish(id[t])

\* C4 (sharing is aliasing): two attached, unfinished sequences of the same
\* group hold the same page in every slot of the prefix.
C4_SharingIsAliasing ==
    \A a, b \in Workers :
        (a # b /\ Attached(a) /\ Attached(b) /\ gid[a] = gid[b]) =>
            \A k \in 1..groups[gid[a]].num_pages :
                /\ seqs[id[a]].slots[k] # NULL
                /\ seqs[id[a]].slots[k] = seqs[id[b]].slots[k]

\* Two sequences of one group, one of which has since appended onto a page
\* of its own.
C4_Witness ==
    \E a, b \in Workers :
        /\ a # b /\ Attached(a) /\ Attached(b) /\ gid[a] = gid[b]
        /\ \E k \in DOMAIN seqs[id[a]].slots :
              /\ k > groups[gid[a]].num_pages
              /\ seqs[id[a]].slots[k] # NULL

\* paged_stats has returned and paged_destroy has not begun.
StatsFresh == pc[Main] = "destroy_seqs" /\ d = 0
TokensOf(ks) == [k \in ks |-> seqs[k].cur_tokens]
RECURSIVE Total(_)
Total(f) ==
    IF DOMAIN f = {} THEN 0
    ELSE LET k == CHOOSE k \in DOMAIN f : TRUE
         IN f[k] + Total([j \in DOMAIN f \ {k} |-> f[j]])

\* C5 (paged stats): with no operation running, physical_bytes is the number
\* of pages with a positive count times page_bytes, however many sequences
\* alias a page; logical_tokens is the sum of cur_tokens over the sequences
\* and logical_bytes is that sum times bytes_per_token.
C5_PagedStats ==
    StatsFresh =>
        /\ st.physical_bytes = Cardinality(PagesInUse) * page_bytes
        /\ st.logical_tokens = Total(TokensOf(DOMAIN seqs))
        /\ st.logical_bytes = st.logical_tokens * bytes_per_token

\* Statistics read while a page has several holders and tokens are stored.
C5_Witness ==
    /\ StatsFresh
    /\ \E q \in Pages : ref[q] >= 3
    /\ st.logical_tokens > 0
    /\ st.physical_bytes > 0

\* paged_destroy has not begun.
DestroyNotBegun == pc[Main] = "join" \/ StatsFresh
\* Every worker has initialised its sequence and is between two calls.
AllBetweenCalls == \A t \in Workers : pc[t] \in {"ready", "done"}
NoFinishCalled == DestroyNotBegun /\ \A t \in Threads : finishes[t] = 0
PrefixAppended == \A k \in DOMAIN seqs : seqs[k].cur_tokens >= seqs[k].shared_prefix_tokens
GroupPages == [g \in DOMAIN groups |-> IF groups[g].initialized THEN groups[g].num_pages ELSE 0]
SuffixPages ==
    [k \in DOMAIN seqs |->
        CeilDiv(seqs[k].cur_tokens - seqs[k].shared_prefix_tokens, TokensPerPage)]

Populated(s) == Cardinality({j \in DOMAIN s.slots : s.slots[j] # NULL})
Covered(s) ==
    /\ \A tok \in 0..(s.cur_tokens - 1) :
          /\ tok \div TokensPerPage < slots_capacity(s)
          /\ Slot(s, tok \div TokensPerPage) # NULL
    /\ s.cur_tokens <= Populated(s) * TokensPerPage

\* C7 (slot coverage), as amended: in every reachable state, appends in
\* progress included, every sequence that is not inside finish_sequence has
\* the slot of each token below cur_tokens populated, so cur_tokens <=
\* populated slots x tokens_per_page.
C7_SlotCoverage == \A k \in DOMAIN seqs : ~InFinish(k) => Covered(seqs[k])

\* C7 as stated: the same for every sequence in every reachable state.
C7_AsStated == \A k \in DOMAIN seqs : Covered(seqs[k])

\* An append has stored the page of a later page boundary and has not yet
\* published the token, while another sequence exists to observe it.
C7_Witness ==
    \E t \in Workers :
        /\ pc[t] = "append_publish"
        /\ idx[t] > 0 /\ idx[t] % TokensPerPage = 0
        /\ seqs[id[t]].cur_tokens = idx[t]
        /\ Slot(seqs[id[t]], idx[t] \div TokensPerPage) # NULL
        /\ num_seqs > 1

\* C8 (bounded cur_tokens): cur_tokens <= max_context_tokens for every
\* sequence in every reachable state, however many append_token calls.
C8_BoundedCurTokens == \A k \in DOMAIN seqs : seqs[k].cur_tokens <= MaxContextTokens

\* A sequence at the ceiling that has been appended to more often than that.
C8_Witness ==
    \E t \in Workers :
        /\ pc[t] = "ready" /\ calls[t] > MaxContextTokens
        /\ seqs[id[t]].cur_tokens = MaxContextTokens

\* Worker t has called append_token more than max_context_tokens times, the
\* last call has returned, and its sequence has not been finished.
Clamped(t) ==
    /\ calls[t] > MaxContextTokens
    /\ pc[t] = "ready"
AttachedPages(s) == s.shared_prefix_tokens \div TokensPerPage

C10_RoundTrip ==
    (snap.t # NoThread /\ pc[snap.t] = "finished") =>
        page_allocator_pages_in_use =
            snap.before + (IF snap.built THEN groups[snap.grp].num_pages ELSE 0)

\* A measured run that built its group's entry and was finished, while pages
\* beyond that entry's were held throughout.
C10_Witness ==
    /\ snap.t # NoThread /\ pc[snap.t] = "finished"
    /\ snap.built /\ snap.before > 0
    /\ slots_capacity(seqs[id[snap.t]]) > 0
    /\ page_allocator_pages_in_use > groups[snap.grp].num_pages

\* finish_sequence has returned on every sequence initialised so far: each
\* worker either has not started or has finished, or paged_destroy is past
\* its loop over the sequences.
EverySeqFinished ==
    \/ pc[Main] = "join" /\ \A t \in Workers : pc[t] \in {"start", "finished"}
    \/ pc[Main] = "destroy_seqs" /\ d = num_seqs

SecondFinish(t) == pc[t] = "finished" /\ FinishSequence(t)

\* C12 (finish is idempotent): a second finish_sequence on the same id, with
\* no append in between, returns without a page_dec_ref and changes no
\* refcount, no free-list entry, no slot and no counter.
C12_FinishIdempotent ==
    [][\A t \in Workers :
          SecondFinish(t) =>
              /\ pc'[t] = "finished"
              /\ UNCHANGED <<alloc_vars, impl_vars>>]_vars

\* A sequence that held pages has been finished more than once.
C12_Witness ==
    \E t \in Workers :
        /\ pc[t] = "finished" /\ finishes[t] = ManyFinishes
        /\ slots_capacity(seqs[id[t]]) > 0
        /\ Populated(seqs[id[t]]) = 0

InBuild(t) == pc[t] \in {"alloc_pop", "alloc_ref"} /\ ret[t] = "build"
\* Pages are allocated for a group only while its entry is not initialized,
\* and by one thread at a time.
BuildOnlyWhenNew ==
    \A t \in Workers :
        InBuild(t) =>
            /\ ~groups[gid[t]].initialized
            /\ \A u \in Workers \ {t} : ~InBuild(u)
\* An initialized entry keeps its page list, page count and prefix_tokens.
EntriesFrozen ==
    \A g \in DOMAIN groups : groups[g].initialized => groups'[g] = groups[g]

\* C14 (lazy group build happens exactly once): under any interleaving of
\* init_sequence calls naming one group, its prefix pages are allocated by one
\* call only, made while the entry is not initialized, and once initialized
\* the entry never changes.
C14_BuildOnce == []BuildOnlyWhenNew /\ [][EntriesFrozen]_vars

\* Every worker's init named the same group and all have returned.
C14_Witness ==
    /\ \A t \in Workers : pc[t] = "ready"
    /\ \E g \in DOMAIN groups :
          /\ groups[g].initialized
          /\ AttachedTo(g) = Workers
          /\ \A t \in Workers : seqs[id[t]].shared_prefix_tokens = groups[g].prefix_tokens

\* Worker t is inside an init_sequence whose floored, non-zero request
\* differs from the prefix length of its group's built entry.
Diverging(t) ==
    /\ InInit(t)
    /\ gid[t] # NoGroup
    /\ groups[gid[t]].initialized
    /\ RequestedTokens(work[t]) # groups[gid[t]].prefix_tokens
\* At its return such an init has recorded the entry's prefix length and
\* holds exactly the entry's pages.
AdoptsEntry ==
    \A t \in Workers :
        (Diverging(t) /\ pc[t] = "init_unlock") =>
            LET g == groups[gid[t]]
                s == seqs[id[t]]
            IN /\ s.shared_prefix_tokens = g.prefix_tokens
               /\ \A j \in 1..g.num_pages : s.slots[j] = g.pages[j]
               /\ Populated(s) = g.num_pages
\* No step of such an init changes a built entry or another sequence.
DivergingInitFrame ==
    \A t \in Workers :
        (pc'[t] # pc[t] /\ (pc[t] = "start" \/ InInit(t)) /\ Diverging(t)') =>
            /\ \A g \in DOMAIN groups : groups[g].initialized => groups'[g] = groups[g]
            /\ \A k \in DOMAIN seqs : k # id'[t] => seqs'[k] = seqs[k]

\* C15 (divergence policy): an init_sequence in a group whose entry is built,
\* with a floored, non-zero shared_prompt_tokens other than the entry's
\* prefix_tokens, sets the sequence's shared_prefix_tokens to the entry's,
\* attaches exactly the entry's pages, and changes neither the entry nor any
\* other sequence.
C15_DivergencePolicy == []AdoptsEntry /\ [][DivergingInitFrame]_vars

\* A diverging init is about to return while another sequence of the group
\* holds tokens.
C15_Witness ==
    \E t \in Workers :
        /\ Diverging(t) /\ pc[t] = "init_unlock"
        /\ \E u \in Workers \ {t} : gid[u] = gid[t] /\ seqs[id[u]].cur_tokens > 0

\* Every recorded prefix length is a whole number of pages.
PrefixPageAligned ==
    \A k \in DOMAIN seqs : seqs[k].shared_prefix_tokens % TokensPerPage = 0
\* The step in which worker t's build marks an entry initialized gives it
\* the request rounded down to whole pages.
BuildsFlooredRequest ==
    \A t \in Workers : \A g \in DOMAIN groups :
        (InBuild(t) /\ gid[t] = g /\ ~groups[g].initialized /\ groups'[g].initialized) =>
            groups'[g].prefix_tokens =
                (work[t].shared_prompt_tokens \div TokensPerPage) * TokensPerPage
\* An init whose request is shorter than a page goes straight to its unlock
\* with the allocator and the groups untouched and nothing attached.
ShortRequestAttachesNothing ==
    \A t \in Workers :
        (pc[t] = "start" /\ pc'[t] # "start"
           /\ work'[t].shared_prompt_tokens < TokensPerPage) =>
            /\ pc'[t] = "init_unlock"
            /\ gid'[t] = NoGroup
            /\ seqs'[id'[t]].shared_prefix_tokens = 0
            /\ Populated(seqs'[id'[t]]) = 0
            /\ UNCHANGED <<alloc_vars, groups>>

\* C16 (page-aligned sharing): shared_prefix_tokens is always a multiple of
\* tokens_per_page; the first request k of a group builds
\* floor(k / tokens_per_page) * tokens_per_page prefix tokens; a request that
\* floors to zero attaches nothing and does not initialise the group.
C16_PageAlignedSharing ==
    /\ []PrefixPageAligned
    /\ [][BuildsFlooredRequest /\ ShortRequestAttachesNothing]_vars

\* A request shorter than a page, with a valid group id, returns with its
\* group unbuilt while a sequence holds the one-page prefix of another group.
C16_Witness ==
    /\ num_groups > 0
    /\ \E t \in Workers :
         /\ pc[t] = "init_unlock"
         /\ work[t].shared_prompt_id >= 0
         /\ work[t].shared_prompt_tokens = TokensPerPage - 1
         /\ ~groups[GroupOf(work[t].shared_prompt_id)].initialized
    /\ \E u \in Workers :
         /\ pc[u] = "ready" /\ gid[u] # NoGroup
         /\ seqs[id[u]].shared_prefix_tokens = TokensPerPage

\* C17 (entry shape): an initialized entry has
\* num_pages = ceil(prefix_tokens / tokens_per_page), a prefix_tokens that is
\* a multiple of tokens_per_page, and pairwise distinct pages.
C17_EntryShape ==
    \A g \in DOMAIN groups :
        groups[g].initialized =>
            /\ groups[g].num_pages = CeilDiv(groups[g].prefix_tokens, TokensPerPage)
            /\ groups[g].prefix_tokens % TokensPerPage = 0
            /\ Len(groups[g].pages) = groups[g].num_pages
            /\ \A a, b \in 1..groups[g].num_pages :
                   a # b => groups[g].pages[a] # groups[g].pages[b]

\* An entry spanning several pages is initialized and every worker has
\* attached to it.
C17_Witness ==
    \E g \in DOMAIN groups :
        /\ groups[g].initialized
        /\ groups[g].num_pages >= 2
        /\ AttachedTo(g) = Workers
        /\ \A t \in Workers : pc[t] = "ready"

\* Worker t's init_sequence step is taken with a negative shared_prompt_id.
NegativeIdInit(t) ==
    pc[t] = "start" /\ pc'[t] # "start" /\ work'[t].shared_prompt_id < 0

\* C18 (negative group id): an init_sequence whose shared_prompt_id is
\* negative attaches no prefix page, allocates no page, initialises no group
\* and leaves shared_prefix_tokens at 0, whatever num_groups and
\* shared_prompt_tokens are.
C18_NegativeGroupId ==
    [][\A t \in Workers :
          NegativeIdInit(t) =>
              /\ pc'[t] = "init_unlock"
              /\ gid'[t] = NoGroup
              /\ seqs'[id'[t]].shared_prefix_tokens = 0
              /\ \A j \in DOMAIN seqs'[id'[t]].slots : seqs'[id'[t]].slots[j] = NULL
              /\ ref' = ref /\ free_list' = free_list
              /\ groups' = groups]_vars

\* An init with a negative id and a request of at least a page returns
\* unattached while the group its id would wrap to is built.
C18_Witness ==
    /\ num_groups > 0
    /\ groups[NoId % num_groups].initialized
    /\ \E t \in Workers :
         /\ pc[t] = "init_unlock"
         /\ work[t].shared_prompt_id < 0
         /\ work[t].shared_prompt_tokens >= TokensPerPage
         /\ gid[t] = NoGroup

\* The sequences that hold page q in a slot.
HoldersOf(q) == {k \in DOMAIN seqs : \E j \in DOMAIN seqs[k].slots : seqs[k].slots[j] = q}
PagesSpanned == [k \in DOMAIN seqs |-> CeilDiv(seqs[k].cur_tokens, TokensPerPage)]
WholePagesOnly == \A k \in DOMAIN seqs : seqs[k].cur_tokens % TokensPerPage = 0

AllocOnEmpty(t) == Running /\ pc[t] = "alloc_pop" /\ Len(free_list) = 0
\* The pages a run without finish_sequence calls has asked for: the prefix
\* pages of the built groups and each sequence's pages beyond its prefix.
PagesBeyondPrefix ==
    [k \in DOMAIN seqs |->
        Max(0, CeilDiv(seqs[k].cur_tokens, TokensPerPage) - AttachedPages(seqs[k]))]
PageDemand == Total(GroupPages) + Total(PagesBeyondPrefix)
\* A page_alloc on an empty free list can take its step at once, and the
\* step is the abort; after the abort no statistics exist; statistics of a
\* run without finish_sequence calls exist only for a demand the arena meets.
OutOfPagesAborts ==
    /\ \A t \in Workers :
           AllocOnEmpty(t) =>
               /\ alloc_mutex = NoThread
               /\ ENABLED (Next /\ fatal' = "out_of_pages")
    /\ fatal = "out_of_pages" => pc[Main] = "join" /\ st = ZeroStats
    /\ (StatsFresh /\ finishes[Main] = 0) =>
           PageDemand = page_allocator_pages_in_use /\ PageDemand <= num_pages
\* No step taken while a page_alloc faces an empty free list returns a page
\* to the caller or changes a refcount or the free list, and no step follows
\* the abort.
EmptyAllocFrame ==
    /\ fatal = "none"
    /\ \A t \in Workers :
           AllocOnEmpty(t) =>
               /\ pc'[t] = pc[t] /\ p'[t] = p[t]
               /\ ref' = ref /\ free_list' = free_list
               /\ alloc_mutex' = alloc_mutex

SeqsPastCapacity == 1
MaxSeqs == InitSeqCapacity + SeqsPastCapacity

\* PagedSeqState as the loop of lines 97-102 leaves it; slots is the address
\* of the PageSlot array.
ZeroEntry == [slots |-> NULL, slots_capacity |-> 0, cur_tokens |-> 0,
              shared_prefix_tokens |-> 0]

\* The entry of sequence k in the block at address a.
EntryAt(a, k) == blocks[a][k + 1]
\* Whether address a is the block impl->seqs points to; any other block has
\* been released by realloc.
IsLive(a) == a = seqs_addr

\* Lines 90-105: realloc of the sequences vector.  The first call allocates;
\* a later one either extends the block where it is or moves it, which
\* releases the old block with its bytes left as they were.
GrownVector(moved) ==
    LET old == IF seqs_addr = NULL THEN <<>> ELSE blocks[seqs_addr]
        ns == [k \in 1..GrownSeqCapacity |-> IF k <= Len(old) THEN old[k] ELSE ZeroEntry]
    IN IF num_seqs # seq_capacity
       THEN [blocks |-> blocks, seqs_addr |-> seqs_addr]
       ELSE IF moved \/ seqs_addr = NULL
            THEN [blocks |-> Append(blocks, ns), seqs_addr |-> Len(blocks) + 1]
            ELSE [blocks |-> [blocks EXCEPT ![seqs_addr] = ns], seqs_addr |-> seqs_addr]

\* paged_init_sequence with a negative shared_prompt_id, lines 88-135 in one
\* step: the whole call holds the backend mutex, and what a thread without
\* the mutex can see of it is the vector's move.  The workers followed are
\* among the last to make the call (t = NoThread is one of the others): an
\* entry's index plays no part but its place in the block.
HeapInit(t) ==
    /\ Running
    /\ mutex = NoThread
    /\ num_seqs < MaxSeqs
    /\ t # NoThread => num_seqs >= InitSeqCapacity - NumWorkers
    /\ \E moved \in BOOLEAN :
         LET g == GrownVector(moved)
         IN /\ blocks' = [g.blocks EXCEPT ![g.seqs_addr][num_seqs + 1] =
                             [@ EXCEPT !.cur_tokens = 0, !.shared_prefix_tokens = 0]]
            /\ seqs_addr' = g.seqs_addr
    /\ seq_capacity' = GrownSeqCapacity
    /\ num_seqs' = num_seqs + 1
    /\ IF t = NoThread
       THEN UNCHANGED <<pc, id>>
       ELSE /\ pc[t] = "start"
            /\ pc' = [pc EXCEPT ![t] = "ready"]
            /\ id' = [id EXCEPT ![t] = num_seqs]
    /\ UNCHANGED <<alloc_vars, seqs, groups, num_groups, mutex, work, calls, finishes,
                   i, p, idx, tmp, ret, gid, shared_tokens, pref, main_vars, fatal,
                   snap, slot_arrays, s_addr>>

\* Line 140: s = &impl->seqs[id], taken without the mutex.
HeapAppendTake(t) ==
    /\ Running
    /\ pc[t] = "ready"
    /\ calls[t] < MaxCalls
    /\ calls' = [calls EXCEPT ![t] = @ + 1]
    /\ s_addr' = [s_addr EXCEPT ![t] = seqs_addr]
    /\ pc' = [pc EXCEPT ![t] = "append_test"]
    /\ UNCHANGED <<alloc_vars, impl_vars, id, work, finishes, i, p, idx, tmp, ret, gid,
                   shared_tokens, pref, main_vars, fatal, snap, blocks, seqs_addr,
                   slot_arrays>>

\* Line 150 read through s.
HeapNeedsPage(e, page_idx) ==
    page_idx >= e.slots_capacity \/ slot_arrays[e.slots][page_idx + 1] = NULL

\* Lines 142-150, read through s: the ceiling test, idx, the slot test.
HeapAppendTest(t) ==
    /\ Running
    /\ pc[t] = "append_test"
    /\ LET e == EntryAt(s_addr[t], id[t])
       IN IF e.cur_tokens >= MaxContextTokens
          THEN /\ pc' = [pc EXCEPT ![t] = "ready"]
               /\ s_addr' = [s_addr EXCEPT ![t] = NULL]
               /\ idx' = idx
          ELSE /\ idx' = [idx EXCEPT ![t] = e.cur_tokens]
               /\ pc' = [pc EXCEPT ![t] =
                            IF HeapNeedsPage(e, e.cur_tokens \div TokensPerPage)
                            THEN "append_lock" ELSE "append_write"]
               /\ s_addr' = s_addr
    /\ UNCHANGED <<alloc_vars, impl_vars, id, work, calls, finishes, i, p, tmp, ret, gid,
                   shared_tokens, pref, main_vars, fatal, snap, blocks, seqs_addr,
                   slot_arrays>>

\* paged_seq_reserve_slots through s: the entry and the PageSlot arrays
\* after the call.  A first reservation allocates the array; a later one
\* is taken to move it.
HeapReserved(e, n) ==
    IF n <= e.slots_capacity
    THEN [entry |-> e, arrays |-> slot_arrays]
    ELSE LET first == IF e.slots_capacity = 0 THEN InitSlotsCapacity
                      ELSE e.slots_capacity * 2
             new_cap == DoubleUntil(first, n)
             ns == [k \in 1..new_cap |->
                      IF k <= e.slots_capacity THEN slot_arrays[e.slots][k] ELSE NULL]
         IN [entry |-> [e EXCEPT !.slots = Len(slot_arrays) + 1, !.slots_capacity = new_cap],
             arrays |-> Append(slot_arrays, ns)]

\* Lines 151-158 in one step, under the backend mutex and through s: reserve
\* the slot, and fill it from page_alloc when it is empty.
HeapAppendLocked(t) ==
    /\ Running
    /\ pc[t] = "append_lock"
    /\ mutex = NoThread
    /\ LET page_idx == idx[t] \div TokensPerPage
           r == HeapReserved(EntryAt(s_addr[t], id[t]), page_idx + 1)
           empty == r.arrays[r.entry.slots][page_idx + 1] = NULL
       IN IF empty /\ Len(free_list) = 0
          THEN /\ fatal' = Aborted
               /\ UNCHANGED <<ref, free_list, blocks, slot_arrays, pc>>
          ELSE /\ blocks' = [blocks EXCEPT ![s_addr[t]][id[t] + 1] = r.entry]
               /\ IF empty
                  THEN LET q == free_list[Len(free_list)]
                       IN /\ free_list' = SubSeq(free_list, 1, Len(free_list) - 1)
                          /\ ref' = [ref EXCEPT ![q] = 1]
                          /\ slot_arrays' =
                                 [r.arrays EXCEPT ![r.entry.slots][page_idx + 1] = q]
                  ELSE /\ slot_arrays' = r.arrays
                       /\ UNCHANGED <<ref, free_list>>
               /\ pc' = [pc EXCEPT ![t] = "append_write"]
               /\ fatal' = fatal
    /\ UNCHANGED <<alloc_mutex, impl_vars, id, work, calls, finishes, i, p, idx, tmp, ret,
                   gid, shared_tokens, pref, main_vars, snap, seqs_addr, s_addr>>

\* Line 161: s->cur_tokens = idx + 1, written through s.
HeapAppendWrite(t) ==
    /\ Running
    /\ pc[t] = "append_write"
    /\ blocks' = [blocks EXCEPT ![s_addr[t]][id[t] + 1].cur_tokens = idx[t] + 1]
    /\ pc' = [pc EXCEPT ![t] = "ready"]
    /\ s_addr' = [s_addr EXCEPT ![t] = NULL]
    /\ UNCHANGED <<alloc_vars, impl_vars, id, work, calls, finishes, i, p, idx, tmp, ret,
                   gid, shared_tokens, pref, main_vars, fatal, snap, seqs_addr,
                   slot_arrays>>

\* Worker t is inside paged_append_token, past line 140.
InAppend(t) == pc[t] \in {"append_test", "append_lock", "append_write"}

\* An access through a pointer into a released block: the bytes may still be
\* there, as the steps above take them to be, or the access may fault.
HeapFault(t) ==
    /\ Running
    /\ InAppend(t)
    /\ ~IsLive(s_addr[t])
    /\ fatal' = "invalid_access"
    /\ UNCHANGED <<alloc_vars, impl_vars, pc, local_vars, main_vars, snap, heap_vars>>

\* run_simulation lines 62-69 with paged_stats: every thread has made its
\* init_sequence call and its appends and has returned, the main thread has
\* joined them and sums cur_tokens over the entries impl->seqs reaches.  The
\* workers' call counts are kept for comparison.
HeapJoinStats ==
    /\ Running
    /\ pc[Main] = "join"
    /\ num_seqs = MaxSeqs
    /\ \A t \in Workers : pc[t] = "ready"
    /\ mutex = NoThread
    /\ LET logical_tokens ==
               SumTokens([k \in 0..(num_seqs - 1) |-> EntryAt(seqs_addr, k)], num_seqs)
       IN st' = [logical_tokens |-> logical_tokens,
                 logical_bytes |-> logical_tokens * bytes_per_token,
                 physical_bytes |-> page_allocator_pages_in_use * page_bytes]
    /\ pc' = [t \in Threads |-> IF t = Main THEN "destroy_seqs" ELSE "done"]
    /\ UNCHANGED <<alloc_vars, impl_vars, local_vars, d, fatal, snap, heap_vars>>

HeapNext ==
    \/ \E t \in Workers \cup {NoThread} : HeapInit(t) /\ UNCHANGED <<mono_vars, sim_vars>>
    \/ \E t \in Workers : HeapAppendTake(t) /\ UNCHANGED <<mono_vars, sim_vars>>
    \/ \E t \in Workers : HeapAppendTest(t) /\ UNCHANGED <<mono_vars, sim_vars>>
    \/ \E t \in Workers : HeapAppendLocked(t) /\ UNCHANGED <<mono_vars, sim_vars>>
    \/ \E t \in Workers : HeapAppendWrite(t) /\ UNCHANGED <<mono_vars, sim_vars>>
    \/ \E t \in Workers : HeapFault(t) /\ UNCHANGED <<mono_vars, sim_vars>>
    \/ HeapJoinStats /\ UNCHANGED <<mono_vars, sim_vars>>

\* A backend created with num_groups = 0.
NoGroupsInit == Init /\ num_groups = 0

HeapSpec == NoGroupsInit /\ [][HeapNext]_vars

\* The tokens the calls of worker t have stored so far.
Stored(t) == Min(calls[t], MaxContextTokens)

\* C21 (sequence-entry address stability), as stated: no init_sequence
\* relocates a sequence's entry while its worker is inside append_token, and
\* no update of an append is lost: between two calls the entry that
\* impl->seqs reaches holds every token the worker's appends have stored.
C21_AddressStability ==
    \A t \in Workers :
        /\ InAppend(t) => IsLive(s_addr[t])
        /\ pc[t] = "ready" => EntryAt(seqs_addr, id[t]).cur_tokens = Stored(t)

\* An append has returned and the entry impl->seqs reaches does not hold
\* its token, nor the page it allocated.
C21_Witness ==
    \E t \in Workers :
        /\ pc[t] = "ready"
        /\ calls[t] = 1
        /\ EntryAt(seqs_addr, id[t]).cur_tokens = 0
        /\ EntryAt(seqs_addr, id[t]).slots = NULL
        /\ \E q \in Pages : ref[q] = 1
        /\ fatal = "none"

\* --------------------------------------------- stats during active operation
\* A driver whose main thread calls kv_stats once while the workers are
\* still making their calls, in place of joining them first.

\* paged_stats lines 183-185: st = {0, 0, 0}, lock the backend mutex.
StatsLock ==
    /\ Running
    /\ pc[Main] = "join"
    /\ mutex = NoThread
    /\ mutex' = Main
    /\ st' = ZeroStats
    /\ i' = [i EXCEPT ![Main] = 0]
    /\ pc' = [pc EXCEPT ![Main] = "stats_read"]
    /\ UNCHANGED <<alloc_vars, seqs, num_seqs, seq_capacity, groups, num_groups, id, work,
                   calls, finishes, p, idx, tmp, ret, gid, shared_tokens, pref, d, fatal>>

\* Lines 186-189: add impl->seqs[i].cur_tokens and go on; past the last
\* sequence, unlock.
StatsRead ==
    /\ Running
    /\ pc[Main] = "stats_read"
    /\ IF i[Main] < num_seqs
       THEN /\ st' = [st EXCEPT !.logical_tokens = @ + seqs[i[Main]].cur_tokens]
            /\ i' = [i EXCEPT ![Main] = @ + 1]
            /\ UNCHANGED <<mutex, pc>>
       ELSE /\ mutex' = NoThread
            /\ i' = [i EXCEPT ![Main] = 0]
            /\ pc' = [pc EXCEPT ![Main] = "stats_pages"]
            /\ st' = st
    /\ UNCHANGED <<alloc_vars, seqs, num_seqs, seq_capacity, groups, num_groups, id, work,
                   calls, finishes, p, idx, tmp, ret, gid, shared_tokens, pref, d, fatal>>

\* Lines 191-194: logical_bytes, then page_allocator_pages_in_use, whose
\* loop runs under the allocator mutex, and physical_bytes.
StatsPages ==
    /\ Running
    /\ pc[Main] = "stats_pages"
    /\ alloc_mutex = NoThread
    /\ st' = [st EXCEPT !.logical_bytes = st.logical_tokens * bytes_per_token,
                        !.physical_bytes = page_allocator_pages_in_use * page_bytes]
    /\ pc' = [pc EXCEPT ![Main] = "stats_done"]
    /\ UNCHANGED <<alloc_vars, impl_vars, id, work, calls, finishes, i, p, idx, tmp, ret,
                   gid, shared_tokens, pref, d, fatal>>

LiveNext ==
    \/ \E t \in Workers : Call(t) /\ UNCHANGED <<snap, aux_vars>>
    \/ StatsLock /\ UNCHANGED <<snap, aux_vars>>
    \/ StatsRead /\ UNCHANGED <<snap, aux_vars>>
    \/ StatsPages /\ UNCHANGED <<snap, aux_vars>>

LiveSpec == Init /\ [][LiveNext]_vars

\* The next step of paged_stats is the read of sequence k's cur_tokens at
\* line 187, made with the backend mutex held.
StatsReadsNext(k) == pc[Main] = "stats_read" /\ i[Main] = k /\ k < num_seqs
\* The next step of worker t is the store to its sequence's cur_tokens at
\* line 161, made without the backend mutex.
WritesNextUnlocked(t) == pc[t] = "append_publish" /\ mutex # t

\* C22 (stats is race-free during active operation), as stated: a stats
\* call running beside the workers' appends never reads a sequence's
\* cur_tokens while that sequence's worker writes it, unless the backend
\* mutex orders the two accesses.
C22_StatsRaceFree ==
    \A t \in Workers : ~(StatsReadsNext(id[t]) /\ WritesNextUnlocked(t))

\* paged_stats holds the mutex and is about to read the cur_tokens that a
\* worker, past its own unlock, is about to store.
C22_Witness ==
    \E t \in Workers :
        /\ StatsReadsNext(id[t]) /\ WritesNextUnlocked(t)
        /\ mutex = Main
        /\ seqs[id[t]].cur_tokens # idx[t] + 1

\* Thread t is inside page_inc_ref, before or between the read and the write
\* of p->ref.
InIncRef(t) == pc[t] \in {"inc_ref", "inc_write"}
\* Thread u is inside page_alloc, page_inc_ref or page_dec_ref.
InRefMutator(u) ==
    pc[u] \in {"alloc_pop", "alloc_ref", "inc_ref", "inc_write", "dec_ref", "dec_push"}
\* A page_inc_ref is applied to a page with a count of at least 1 that is
\* not on the free list; the value it read is still the page's count when it
\* writes; and no other thread is inside a call that mutates a refcount.
IncRefOnHeldPage ==
    \A t \in Threads :
        InIncRef(t) =>
            /\ ref[p[t]] >= 1
            /\ ~OnFreeList(p[t])
            /\ pc[t] = "inc_write" => tmp[t] = ref[p[t]]
            /\ \A u \in Threads \ {t} : ~InRefMutator(u)
\* No step taken while thread t stays between its read and its write changes
\* the count of t's page.
IncRefUndisturbed ==
    \A t \in Threads :
        (pc[t] = "inc_write" /\ pc'[t] = "inc_write") => ref'[p[t]] = ref[p[t]]

\* C23 (unlocked inc_ref is safe): every page_inc_ref is applied to a page
\* whose refcount is at least 1, and between the read and the write of an
\* inc_ref no other thread's alloc, inc_ref or dec_ref mutates that page's
\* refcount: no lost update and no increment of a page on the free list,
\* under any interleaving of init_sequence, append_token and
\* finish_sequence.
C23_UnlockedIncRefSafe == []IncRefOnHeldPage /\ [][IncRefUndisturbed]_vars

\* An inc_ref stands between its read and its write on a page another
\* sequence already holds, while that sequence's worker is in the middle of
\* its appends.
C23_Witness ==
    \E t \in Workers :
        /\ pc[t] = "inc_write"
        /\ ref[p[t]] >= 2
        /\ \E u \in Workers \ {t} : pc[u] = "ready" /\ seqs[id[u]].cur_tokens > 0

\* ------------------------------------------------- the monolithic backend
\* run_simulation on the backend of mono_kv.c: the main thread creates the
\* backend, every worker initialises a sequence and appends to it, calling
\* finish_sequence when it likes, and the main thread joins the workers,
\* reads the statistics and destroys the backend.

\* mono_init_sequence line 43: the context window every sequence is given.
FixedContextWindow == 4096
\* The max_context_tokens a backend may be configured with: a small window
\* and the one of line 43.
MonoContextChoices == {MaxContextTokens, FixedContextWindow}
\* The ids finish_sequence is called with: every id in range and one past
\* the range.
FinishIdChoices == 0..NumWorkers

\* create_monolithic_backend: capacity is cfg->num_sequences, no sequence
\* yet.
MonoCreate ==
    /\ mono_pc[Main] = "create"
    /\ \E c \in MonoContextChoices :
         mono_cfg' = [max_context_tokens |-> c, num_sequences |-> NumWorkers]
    /\ mono_capacity' = NumWorkers
    /\ mono_seqs' = <<>>
    /\ mono_num_seqs' = 0
    /\ mono_mutex' = NoThread
    /\ mono_pc' = [mono_pc EXCEPT ![Main] = "join"]
    /\ UNCHANGED <<mono_id, mono_calls, mono_finishes, mono_st>>

\* Lines 26-35: the capacity after the growth.
MonoGrownCapacity ==
    IF mono_num_seqs = mono_capacity
    THEN (IF mono_capacity = 0 THEN InitSeqCapacity ELSE mono_capacity * 2)
    ELSE mono_capacity

\* mono_init_sequence, lines 24-53 under the backend mutex: the entry gets
\* bytes_per_token, max_tokens, cur_tokens = 0 and a buffer of
\* max_tokens * bytes_per_token bytes.
MonoInitSequence(t) ==
    /\ mono_pc[Main] = "join"
    /\ mono_pc[t] = "start"
    /\ mono_mutex = NoThread
    /\ mono_capacity' = MonoGrownCapacity
    /\ mono_id' = [mono_id EXCEPT ![t] = mono_num_seqs]
    /\ mono_num_seqs' = mono_num_seqs + 1
    /\ mono_seqs' = Append(mono_seqs,
                           [bytes_per_token |-> bytes_per_token,
                            max_tokens |-> FixedContextWindow,
                            cur_tokens |-> 0,
                            kv_buffer |-> FixedContextWindow * bytes_per_token])
    /\ mono_pc' = [mono_pc EXCEPT ![t] = "ready"]
    /\ UNCHANGED <<mono_cfg, mono_mutex, mono_calls, mono_finishes, mono_st>>

\* mono_append_token lines 58-61.
MonoAppended(e) ==
    IF e.cur_tokens < e.max_tokens THEN [e EXCEPT !.cur_tokens = @ + 1] ELSE e

\* mono_append_token, called by a worker on its own sequence.
MonoAppendToken(t) ==
    /\ mono_pc[t] = "ready"
    /\ mono_calls[t] < MaxCalls
    /\ mono_calls' = [mono_calls EXCEPT ![t] = @ + 1]
    /\ mono_seqs' = [mono_seqs EXCEPT ![mono_id[t] + 1] = MonoAppended(@)]
    /\ UNCHANGED <<mono_cfg, mono_num_seqs, mono_capacity, mono_mutex, mono_pc, mono_id,
                   mono_finishes, mono_st>>

\* A finish_sequence that resets the sequence it is given, when there is one.
MonoReset(ss, k) ==
    IF k + 1 \in DOMAIN ss THEN [ss EXCEPT ![k + 1].cur_tokens = 0] ELSE ss

\* mono_finish_sequence lines 64-68: the sequences after the call.
MonoFinished(ss, k) == ss

\* mono_finish_sequence, called with any id.
MonoFinishSequence(t) ==
    /\ mono_pc[t] = "ready"
    /\ \E k \in FinishIdChoices : mono_seqs' = MonoFinished(mono_seqs, k)
    /\ mono_finishes' = [mono_finishes EXCEPT ![t] = Min(@ + 1, ManyFinishes)]
    /\ UNCHANGED <<mono_cfg, mono_num_seqs, mono_capacity, mono_mutex, mono_pc, mono_id,
                   mono_calls, mono_st>>

\* mono_stats lines 70-84: the sums over the first n sequences.
RECURSIVE MonoSum(_, _, _)
MonoSum(ss, n, st0) ==
    IF n = 0 THEN st0
    ELSE LET r == MonoSum(ss, n - 1, st0)
         IN [r EXCEPT !.logical_tokens = @ + ss[n].cur_tokens,
                      !.physical_bytes = @ + ss[n].max_tokens * ss[n].bytes_per_token]
mono_stats(ss, n) ==
    LET r == MonoSum(ss, n, ZeroStats)
    IN [r EXCEPT !.logical_bytes = r.logical_tokens * bytes_per_token]

\* run_simulation lines 62-69: every worker has initialised its sequence
\* and returned; the main thread has joined them and calls mono_stats.
MonoJoinStats ==
    /\ mono_pc[Main] = "join"
    /\ \A t \in Workers : mono_pc[t] = "ready"
    /\ mono_mutex = NoThread
    /\ mono_st' = mono_stats(mono_seqs, mono_num_seqs)
    /\ mono_pc' = [t \in Threads |-> IF t = Main THEN "stats_done" ELSE "done"]
    /\ UNCHANGED <<mono_cfg, mono_seqs, mono_num_seqs, mono_capacity, mono_mutex, mono_id,
                   mono_calls, mono_finishes>>

\* mono_destroy: the buffers and the vector are freed.
MonoDestroy ==
    /\ mono_pc[Main] = "stats_done"
    /\ mono_seqs' = <<>>
    /\ mono_num_seqs' = 0
    /\ mono_pc' = [mono_pc EXCEPT ![Main] = "destroyed"]
    /\ UNCHANGED <<mono_cfg, mono_capacity, mono_mutex, mono_id, mono_calls,
                   mono_finishes, mono_st>>

paged_vars ==
    <<alloc_vars, impl_vars, pc, local_vars, main_vars, fatal, snap, heap_vars, sim_vars>>

MonoNext ==
    \/ MonoCreate /\ UNCHANGED paged_vars
    \/ \E t \in Workers : MonoInitSequence(t) /\ UNCHANGED paged_vars
    \/ \E t \in Workers : MonoAppendToken(t) /\ UNCHANGED paged_vars
    \/ \E t \in Workers : MonoFinishSequence(t) /\ UNCHANGED paged_vars
    \/ MonoJoinStats /\ UNCHANGED paged_vars
    \/ MonoDestroy /\ UNCHANGED paged_vars

MonoSpec == NoGroupsInit /\ [][MonoNext]_vars

\* run_simulation has returned the statistics of the monolithic backend.
MonoStatsFresh == mono_pc[Main] = "stats_done"

\* C24 (monolithic upper bound), as stated: after n init_sequence calls the
\* statistics have physical_bytes = n * max_context_tokens *
\* bytes_per_token, whatever max_context_tokens is configured and however
\* many tokens were appended.
C24_MonoUpperBound ==
    MonoStatsFresh =>
        mono_st.physical_bytes =
            mono_num_seqs * mono_cfg.max_context_tokens * bytes_per_token

\* Statistics of a backend configured with the small window: every sequence
\* is charged the window of line 43.
C24_Witness ==
    /\ MonoStatsFresh
    /\ mono_cfg.max_context_tokens = MaxContextTokens
    /\ mono_num_seqs = NumWorkers
    /\ mono_st.physical_bytes = NumWorkers * FixedContextWindow * bytes_per_token

\* The tokens the paged backend holds for a sequence after as many
\* append_token calls as worker t has made: the count, clamped at
\* max_context_tokens.
ClampedCalls(t) == Min(mono_calls[t], mono_cfg.max_context_tokens)

\* C25 (monolithic clamp), as stated: monolithic append_token adds one token
\* below max_context_tokens and nothing at or above it, so cur_tokens never
\* exceeds max_context_tokens and, between calls, is the count the paged
\* backend reports for the same appends.
C25_MonoClamp ==
    \A t \in Workers :
        mono_pc[t] = "ready" =>
            /\ mono_seqs[mono_id[t] + 1].cur_tokens <= mono_cfg.max_context_tokens
            /\ mono_seqs[mono_id[t] + 1].cur_tokens = ClampedCalls(t)

\* A sequence of a backend configured with the small window holds one token
\* more than the window.
C25_Witness ==
    \E t \in Workers :
        /\ mono_pc[t] = "ready"
        /\ mono_cfg.max_context_tokens = MaxContextTokens
        /\ mono_seqs[mono_id[t] + 1].cur_tokens = MaxContextTokens + 1

\* Worker t's step is a finish_sequence call.
MonoFinishStep(t) == mono_pc[t] = "ready" /\ mono_finishes'[t] # mono_finishes[t]

\* C26 (monolithic finish_sequence is a no-op): called with any id, in range
\* or not, it leaves every sequence's cur_tokens, max_tokens and buffer
\* unchanged, and with them what stats() returns.
C26_MonoFinishNoOp ==
    [][\A t \in Workers :
          MonoFinishStep(t) =>
              /\ mono_seqs' = mono_seqs
              /\ mono_num_seqs' = mono_num_seqs
              /\ mono_stats(mono_seqs', mono_num_seqs') =
                     mono_stats(mono_seqs, mono_num_seqs)]_vars

\* The statistics count the tokens of a sequence whose worker called
\* finish_sequence more than once.
C26_Witness ==
    /\ MonoStatsFresh
    /\ \E t \in Workers :
         /\ mono_finishes[t] = ManyFinishes
         /\ mono_calls[t] > 0
         /\ mono_seqs[mono_id[t] + 1].cur_tokens = mono_calls[t]
    /\ mono_st.logical_tokens > 0

\* Page q is held: by a slot of a sequence or, until paged_destroy releases
\* the group table, by an initialized group entry.
Held(q) ==
    SlotRefs(q) # {} \/ (TableSharesHeld /\ \E g \in DOMAIN groups : ListedIn(g, q))
\* Every page on the free list has count 0, is listed once, is held by
\* nothing and is not the page a page_alloc in progress has popped; the page
\* a page_alloc has popped still has count 0, and no two calls in progress
\* have popped the same page.
FreePoolClean ==
    /\ \A k \in DOMAIN free_list :
           /\ ref[free_list[k]] = 0
           /\ ~Held(free_list[k])
           /\ \A j \in DOMAIN free_list : j # k => free_list[j] # free_list[k]
    /\ \A t \in Threads :
           pc[t] = "alloc_ref" =>
               /\ ref[p[t]] = 0
               /\ ~OnFreeList(p[t])
               /\ ~Held(p[t])
               /\ \A u \in Threads \ {t} : pc[u] = "alloc_ref" => p[u] # p[t]
\* The pop of page_alloc takes a page from the free list, and its return
\* leaves that page with count 1.
AllocHandsOutFree ==
    \A t \in Threads :
        /\ (pc[t] = "alloc_pop" /\ pc'[t] = "alloc_ref") =>
               /\ OnFreeList(p'[t]) /\ ref[p'[t]] = 0
               /\ \A k \in DOMAIN free_list' : free_list'[k] # p'[t]
        /\ (pc[t] = "alloc_ref" /\ pc'[t] # "alloc_ref") =>
               ref[p[t]] = 0 /\ ref'[p[t]] = 1

\* C27 (alloc hands out only free pages): every page page_alloc returns had
\* refcount 0 just before the call and has refcount 1 after it, so under any
\* interleaving no page is returned by two calls without a return to the
\* free pool in between.
C27_AllocOnlyFree == []FreePoolClean /\ [][AllocHandsOutFree]_vars

\* A page_alloc has popped a page that an earlier finish_sequence returned
\* to the free list, while other pages are in use.
C27_Witness ==
    \E t \in Workers :
        /\ pc[t] = "alloc_ref"
        /\ \E u \in Workers \ {t} : finishes[u] > 0
        /\ \E k \in DOMAIN free_list : free_list[k] > p[t]
        /\ \E q \in Pages : ref[q] >= 1

\* The page the next page_alloc returns: free_list[free_count - 1].
Top(fl) == fl[Len(fl)]
\* The free list is a stack: page_alloc pops its top, page_dec_ref pushes on
\* top the page whose count it brought to 0, which the next page_alloc then
\* returns, and nothing else changes the list.
StackDiscipline ==
    /\ \A t \in Threads :
           /\ (pc[t] = "alloc_pop" /\ pc'[t] = "alloc_ref") =>
                  /\ p'[t] = Top(free_list)
                  /\ free_list' = SubSeq(free_list, 1, Len(free_list) - 1)
           /\ (pc[t] = "dec_push" /\ pc'[t] # "dec_push") =>
                  IF ref[p[t]] = 0
                  THEN free_list' = Append(free_list, p[t]) /\ Top(free_list') = p[t]
                  ELSE free_list' = free_list
    /\ free_list' # free_list =>
           \E t \in Threads : pc[t] \in {"alloc_pop", "dec_push"} /\ pc'[t] # pc[t]
\* Until a page is freed the list holds the pages in index order, so that
\* its top is the highest-indexed page never allocated.
FreshListInOrder ==
    NoFinishCalled => \A k \in DOMAIN free_list : free_list[k] = k

\* C28 (LIFO free list): page_alloc returns the page most recently pushed
\* onto the free list, the page whose refcount most recently dropped to 0,
\* or the highest-indexed never-allocated page when nothing has been freed;
\* an alloc right after a dec_ref-to-zero of page p returns p.
C28_LifoFreeList == []FreshListInOrder /\ [][StackDiscipline]_vars

\* A page_alloc is about to pop a freed page that lies on top of a page
\* with a higher index.
C28_Witness ==
    \E t \in Workers :
        /\ pc[t] = "alloc_pop"
        /\ Len(free_list) >= 2
        /\ Top(free_list) < free_list[Len(free_list) - 1]

\* The page slot of the token paged_append_token is about to store.
PageIdx(s) == s.cur_tokens \div TokensPerPage
\* The slot of the next token already holds a page.
SlotPopulated(s) == PageIdx(s) < slots_capacity(s) /\ Slot(s, PageIdx(s)) # NULL
\* paged_append_token of worker t is called in this step.
AppendCalled(t) == pc[t] = "ready" /\ calls'[t] = calls[t] + 1
\* A worker inside the page_alloc of an append holds the backend mutex and
\* stores a token that opens a page.
AllocatingAtBoundary ==
    \A t \in Workers :
        (pc[t] \in {"alloc_pop", "alloc_ref"} /\ ret[t] = "append") =>
            /\ mutex = t
            /\ idx[t] % TokensPerPage = 0
            /\ idx[t] = seqs[id[t]].cur_tokens
            /\ ~SlotPopulated(seqs[id[t]])
\* One call of paged_append_token: it enters page_alloc only from a page
\* boundary with an empty slot, leaves it once, to store the page and
\* return, and with a populated slot touches neither mutex nor allocator.
OneAllocPerAppend ==
    \A t \in Workers :
        /\ (pc[t] = "ready" /\ pc'[t] = "alloc_pop") =>
               /\ seqs[id[t]].cur_tokens % TokensPerPage = 0
               /\ ~SlotPopulated(seqs[id[t]])
               /\ ret'[t] = "append"
               /\ ref' = ref /\ free_list' = free_list
        /\ (AppendCalled(t) /\ SlotPopulated(seqs[id[t]])) =>
               /\ pc'[t] = "ready"
               /\ mutex' = mutex /\ alloc_mutex' = alloc_mutex
               /\ ref' = ref /\ free_list' = free_list
               /\ seqs'[id[t]].slots = seqs[id[t]].slots
        /\ (pc[t] = "alloc_ref" /\ ret[t] = "append" /\ pc'[t] # "alloc_ref") =>
               /\ pc'[t] = "append_publish"
               /\ Slot(seqs'[id[t]], PageIdx(seqs[id[t]])) = p[t]
               /\ mutex' = NoThread
        /\ (pc[t] = "append_publish" /\ pc'[t] # "append_publish") =>
               /\ pc'[t] = "ready"
               /\ seqs'[id[t]].cur_tokens = seqs[id[t]].cur_tokens + 1
               /\ ref' = ref /\ free_list' = free_list

\* C29 (append allocates only at uncovered page boundaries): one call of
\* paged_append_token calls page_alloc at most once, and only when
\* cur_tokens is a multiple of tokens_per_page and the slot of that page is
\* empty; when the slot is populated the call takes no lock and allocates
\* nothing.
C29_AllocAtBoundaryOnly == []AllocatingAtBoundary /\ [][OneAllocPerAppend]_vars

\* A worker whose tokens all came from append has stored a token past the
\* second page boundary through the lock-free path.
C29_Witness ==
    \E t \in Workers :
        /\ pc[t] = "ready"
        /\ calls[t] = TokensPerPage + 1
        /\ seqs[id[t]].cur_tokens = TokensPerPage + 1
        /\ seqs[id[t]].shared_prefix_tokens = 0
        /\ SlotPopulated([seqs[id[t]] EXCEPT !.cur_tokens = TokensPerPage])

\* Worker t calls paged_append_token on an entry that holds
\* max_context_tokens tokens or more.
AppendAtCeiling(t) ==
    AppendCalled(t) /\ seqs[id[t]].cur_tokens >= MaxContextTokens
\* Such a call returns at once: backend, allocator and both mutexes are as
\* they were and the worker is back in its decode loop.
CeilingCallInert ==
    \A t \in Workers :
        AppendAtCeiling(t) =>
            /\ seqs' = seqs
            /\ ref' = ref /\ free_list' = free_list
            /\ mutex' = mutex /\ alloc_mutex' = alloc_mutex
            /\ pc' = pc

\* C30 (append at the ceiling changes nothing): after paged_append_token
\* on a sequence whose cur_tokens is at least max_context_tokens, the
\* sequence's cur_tokens, slots and slots_capacity, every page refcount and
\* the free list are unchanged, and no mutex was acquired.
C30_CeilingNoOp == [][CeilingCallInert]_vars

\* A worker has made one call more than the context holds while the other
\* worker is inside a locked section of the backend.
C30_Witness ==
    \E t \in Workers :
        /\ pc[t] = "ready"
        /\ calls[t] = MaxContextTokens + 1
        /\ seqs[id[t]].cur_tokens = MaxContextTokens
        /\ seqs[id[t]].shared_prefix_tokens = 0
        /\ mutex \in Workers \ {t}

\* Thread t is inside the locked loop of paged_finish_sequence.
InFinishCall(t) == ret[t] = "finish" /\ pc[t] \in {"dec_ref", "dec_push"}
\* This step belongs to a paged_finish_sequence call of thread t: the call
\* itself, by a worker or by paged_destroy, or one of the page_dec_ref steps
\* of its loop.
FinishStep(t) ==
    \/ FinishSequence(t)
    \/ t = Main /\ d < num_seqs /\ DestroySeqs
    \/ InFinishCall(t) /\ (PageDecRefDec(t) \/ PageDecRefPush(t))
\* The sequence that call is about.
FinishTarget(t) == IF InFinishCall(t) \/ t # Main THEN id[t] ELSE d
\* The call has returned with this step.
FinishReturns(t) == ~InFinishCall(t)'
\* What one step of the call may change: in sequence k a populated slot may
\* become empty, the page of the slot under the loop index loses one
\* reference, and the return leaves every slot empty and both counters 0.
FinishStepFrame(t, k) ==
    /\ \A j \in DOMAIN seqs : j # k => seqs'[j] = seqs[j]
    /\ groups' = groups /\ num_groups' = num_groups
    /\ num_seqs' = num_seqs /\ seq_capacity' = seq_capacity
    /\ slots_capacity(seqs'[k]) = slots_capacity(seqs[k])
    /\ \A j \in DOMAIN seqs[k].slots :
           seqs'[k].slots[j] \in {seqs[k].slots[j], NULL}
    /\ \A q \in Pages :
           ref'[q] = IF pc[t] = "dec_ref" /\ q = p[t] THEN ref[q] - 1 ELSE ref[q]
    /\ pc[t] = "dec_ref" => Slot(seqs[k], i[t]) = p[t] /\ seqs'[k] = seqs[k]
    /\ pc[t] = "dec_push" =>
           /\ Slot(seqs'[k], i[t]) = NULL
           /\ i'[t] > i[t] \/ FinishReturns(t)
    /\ FinishReturns(t) =>
           /\ Populated(seqs'[k]) = 0
           /\ seqs'[k].cur_tokens = 0
           /\ seqs'[k].shared_prefix_tokens = 0
           /\ mutex' = NoThread
\* Inside the loop the slots below the index are empty and the page in hand
\* is the one in the slot at the index, so no slot is released twice and
\* none is passed over.
FinishSweeps ==
    \A t \in Threads :
        InFinishCall(t) =>
            /\ mutex = t
            /\ p[t] # NULL /\ Slot(seqs[id[t]], i[t]) = p[t]
            /\ \A j \in 0..(i[t] - 1) : Slot(seqs[id[t]], j) = NULL

\* C31 (finish_sequence frame): finish_sequence(id) empties every slot of
\* sequence id and resets its cur_tokens and shared_prefix_tokens to 0,
\* decrements by exactly 1 the refcount of each page the sequence held, and
\* leaves every other sequence's slots and counters, every group entry and
\* the refcount of every other page unchanged.
C31_FinishFrame ==
    /\ []FinishSweeps
    /\ [][\A t \in Threads : FinishStep(t) => FinishStepFrame(t, FinishTarget(t))]_vars

\* A worker's finish has returned on a sequence of two slots, one of them a
\* prefix page its group still lists, while the other worker's sequence
\* holds tokens.
C31_Witness ==
    \E t \in Workers :
        /\ pc[t] = "finished" /\ finishes[t] = 1
        /\ slots_capacity(seqs[id[t]]) >= 2
        /\ Populated(seqs[id[t]]) = 0
        /\ \E g \in DOMAIN groups : groups[g].initialized /\ ref[groups[g].pages[1]] >= 2
        /\ \E u \in Workers \ {t} : pc[u] = "ready" /\ seqs[id[u]].cur_tokens > 0

\* A finish that takes the backend mutex before it tests the id.
LockThenTest(t) == t

\* The holder of the backend mutex after the range test of
\* paged_finish_sequence has failed: line 166 returns before line 169.
HolderAfterRangeTest(t) == mutex

\* paged_finish_sequence lines 165-166, called by worker t between two of
\* its other calls with an id that is not below num_seqs: the test sends it
\* to the return.  Where the worker was is kept for the return.
FinishOutOfRange(t) ==
    /\ Running
    /\ t \in Workers
    /\ BetweenCalls(t)
    /\ \E k \in FinishIdChoices : k >= num_seqs
    /\ mutex' = HolderAfterRangeTest(t)
    /\ ret' = [ret EXCEPT ![t] = pc[t]]
    /\ pc' = [pc EXCEPT ![t] = "finish_return"]
    /\ UNCHANGED <<alloc_vars, seqs, num_seqs, seq_capacity, groups, num_groups,
                   id, work, calls, finishes, i, p, idx, tmp, gid, shared_tokens,
                   pref, main_vars, fatal>>

\* The worker is back in its driver.
FinishRangeReturn(t) ==
    /\ Running
    /\ pc[t] = "finish_return"
    /\ pc' = [pc EXCEPT ![t] = ret[t]]
    /\ ret' = [ret EXCEPT ![t] = "none"]
    /\ UNCHANGED <<alloc_vars, impl_vars, id, work, calls, finishes, i, p, idx, tmp,
                   gid, shared_tokens, pref, main_vars, fatal>>

\* The worker that makes the out-of-range calls: the last one started.  The
\* call reads nothing of its caller.
RangeCaller == NumWorkers

\* The workers' other calls are made one at a time, as in SoloSpec; an
\* out-of-range finish is made at any point of another worker's call.
RangeNext ==
    \/ SoloNext
    \/ FinishOutOfRange(RangeCaller) /\ UNCHANGED <<snap, aux_vars>>
    \/ FinishRangeReturn(RangeCaller) /\ UNCHANGED <<snap, aux_vars>>

RangeSpec == Init /\ [][RangeNext]_vars

\* C32 (out-of-range finish is a no-op): paged finish_sequence(id) with
\* id >= num_seqs returns without acquiring the backend mutex and without
\* changing any sequence, group, refcount or free-list state.
C32_OutOfRangeFinishNoOp ==
    [][\A t \in Workers :
          (FinishOutOfRange(t) \/ FinishRangeReturn(t)) =>
              /\ mutex' = mutex
              /\ pc'[t] = "finish_return" \/ pc'[t] = ret[t]
              /\ UNCHANGED <<alloc_vars, impl_vars>>]_vars

\* An out-of-range finish has returned to a worker that has no sequence yet
\* while another worker holds both mutexes inside its init.
C32_Witness ==
    \E t \in Workers :
        /\ pc[t] = "finish_return" /\ ret[t] = "start"
        /\ mutex \in Workers \ {t}
        /\ alloc_mutex = mutex
        /\ page_allocator_pages_in_use > 0

\* Worker t's init is at its unlock with a request that shares a prefix:
\* a non-negative id, a length of at least one page, a group table.
SharingInitDone(t) ==
    /\ pc[t] = "init_unlock"
    /\ work[t].shared_prompt_id >= 0
    /\ shareable_tokens(work[t].shared_prompt_tokens) > 0
    /\ num_groups > 0
\* The prefix pages of group g sit in the first slots of sequence k.
HoldsPrefixOf(k, g) ==
    /\ slots_capacity(seqs[k]) >= groups[g].num_pages
    /\ \A j \in 1..groups[g].num_pages : seqs[k].slots[j] = groups[g].pages[j]
\* Every recorded group index is an index of the table.
GroupIndexInRange ==
    \A t \in Threads : gid[t] # NoGroup => gid[t] \in 0..(num_groups - 1)
\* The init took the entry at shared_prompt_id mod num_groups, which is
\* built, and holds its pages, as does every unfinished sequence that took
\* that entry before: ids congruent modulo num_groups share one prefix.
AttachesModulo ==
    \A t \in Workers :
        SharingInitDone(t) =>
            LET g == work[t].shared_prompt_id % num_groups
            IN /\ gid[t] = g
               /\ groups[g].initialized
               /\ HoldsPrefixOf(id[t], g)
               /\ \A u \in Workers \ {t} :
                      (Attached(u) /\ gid[u] = g) => HoldsPrefixOf(id[u], g)

GroupTakenModulo == GroupIndexInRange /\ AttachesModulo

\* C33 (group id is taken modulo num_groups): two sequences whose
\* non-negative shared_prompt_id values are congruent modulo num_groups,
\* with non-zero floored shared_prompt_tokens, attach to the same group
\* entry and alias the same prefix pages, and the computed group index is
\* always in [0, num_groups).
C33_GroupModulo == []GroupTakenModulo

\* An init with an id beyond the table has wrapped to group 0 and holds the
\* pages a sequence with id 0's group already holds.
C33_Witness ==
    \E t \in Workers :
        /\ SharingInitDone(t)
        /\ work[t].shared_prompt_id >= num_groups
        /\ gid[t] = 0
        /\ \E u \in Workers \ {t} :
               /\ Attached(u) /\ gid[u] = 0
               /\ seqs[id[u]].slots[1] = seqs[id[t]].slots[1]
               /\ ref[seqs[id[t]].slots[1]] = 3

\* --------------------------------------------------------- run_simulation
\* The driver of sim.c on the paged backend: each decode thread makes its
\* init_sequence call and then prompt_tokens + gen_tokens append_token
\* calls, and returns; the main thread joins them all and reads the
\* statistics.  No thread calls finish_sequence.

\* prompt_tokens + gen_tokens of a work record: one call more than a context
\* holds, so that every thread crosses each page boundary and meets the
\* ceiling.
TokenCountChoices == {MaxContextTokens + 1}

\* run_simulation lines 54-60: the threads are created, each with its work
\* record.  A thread that has not run yet has touched nothing, so the
\* creations are taken together.
SimCreate ==
    /\ Running
    /\ \A t \in Workers : todo[t] = NotCreated
    /\ \E n \in [Workers -> TokenCountChoices] :
           todo' = [t \in Threads |-> IF t = Main THEN 0 ELSE n[t]]
    /\ UNCHANGED <<alloc_vars, impl_vars, pc, local_vars, main_vars, fatal, out>>

\* decode_thread lines 26-38: the next kv_append_token call of the loops.
SimAppend(t) ==
    /\ todo[t] > 0
    /\ AppendToken(t)
    /\ todo' = [todo EXCEPT ![t] = @ - 1]
    /\ UNCHANGED out

\* A step of decode thread t: its init_sequence call, the next append, or a
\* step inside one of them.
SimStep(t) ==
    /\ todo[t] # NotCreated
    /\ \/ SimAppend(t)
       \/ /\ \/ InitSequence(t)
             \/ InitUnlock(t)
             \/ PageAllocPop(t)
             \/ PageAllocRef(t)
             \/ PageIncRefRead(t)
             \/ PageIncRefWrite(t)
             \/ AppendPublish(t)
          /\ UNCHANGED sim_vars
    /\ UNCHANGED <<snap, heap_vars, mono_vars>>

\* decode_thread has returned: every append of its loops is made.
SimThreadDone(t) == pc[t] = "ready" /\ todo[t] = 0

\* run_simulation lines 62-69: join every thread, then kv_stats.
SimJoin ==
    /\ \A t \in Workers : SimThreadDone(t)
    /\ JoinWorkers
    /\ UNCHANGED <<snap, aux_vars>>

\* A step of the main thread inside run_simulation.
SimMain ==
    \/ SimCreate /\ UNCHANGED <<snap, heap_vars, mono_vars>>
    \/ SimJoin

SimNext ==
    \/ SimMain
    \/ \E t \in Workers : SimStep(t)

\* The scheduler lets every thread that can take a step take one in the end;
\* a pthread mutex that is free is given to one of the threads waiting.
SimFairness ==
    /\ WF_vars(SimMain)
    /\ \A t \in Workers : WF_vars(SimStep(t))

SimSpec == Init /\ [][SimNext]_vars /\ SimFairness

\* run_simulation has returned the statistics.
SimReturned == pc[Main] = "destroy_seqs"
\* The abort of page_alloc is taken only with every page of the arena in
\* use and an allocation waiting: the run asks for more than num_pages.
AbortsOnlyWhenShort ==
    fatal # "none" =>
        /\ fatal = Aborted
        /\ page_allocator_pages_in_use = num_pages
        /\ \E t \in Workers : pc[t] = "alloc_pop"
\* The join finds every thread past its init and its last append, and the
\* statistics count the tokens they stored.
ReturnsAfterAllDone ==
    (SimReturned /\ Running) =>
        /\ num_seqs = NumWorkers
        /\ \A t \in Workers : todo[t] = 0 /\ pc[t] = "done"
        /\ st.logical_tokens = Total(TokensOf(DOMAIN seqs))
\* Short of the return and of the abort some thread can take a step: no
\* state has every thread waiting.
SomeThreadCanRun == (Running /\ ~SimReturned) => ENABLED SimNext
\* A mutex that is held is held by a decode thread that can take a step,
\* and the allocator mutex only by the holder of the backend mutex: no
\* thread waits for a thread that waits.
HolderCanRun ==
    Running =>
        /\ mutex # NoThread => mutex \in Workers /\ ENABLED SimStep(mutex)
        /\ alloc_mutex # NoThread => alloc_mutex = mutex

TokensAsked == Total([t \in Workers |-> Stored(t)])

\* C35 (no lost appends), as stated: for every interleaving of the worker
\* threads of run_simulation on the paged backend, with pages enough, the
\* logical_tokens returned is the sum over the sequences of
\* min(prompt_tokens + gen_tokens, max_context_tokens).
C35_NoLostAppends ==
    (pc[Main] = "destroy_seqs" /\ Running) => st.logical_tokens = TokensAsked

\* run_simulation has returned, no access has faulted, no page_alloc has
\* failed, and the statistics miss a token that an append stored.
C35_Witness ==
    /\ pc[Main] = "destroy_seqs" /\ Running
    /\ st.logical_tokens < TokensAsked
    /\ Len(free_list) > 0

\* ------------------------------------------------- init_sequence, both backends
\* The init_sequence calls of the decode threads on a paged and on a
\* monolithic backend, each call of the paged one with all its steps; the
\* two backends share nothing.
IdNext ==
    \/ \E t \in Workers : InitSequence(t) /\ UNCHANGED <<snap, aux_vars>>
    \/ \E t \in Workers : InitUnlock(t) /\ UNCHANGED <<snap, aux_vars>>
    \/ \E t \in Workers : PageAllocPop(t) /\ UNCHANGED <<snap, aux_vars>>
    \/ \E t \in Workers : PageAllocRef(t) /\ UNCHANGED <<snap, aux_vars>>
    \/ \E t \in Workers : PageIncRefRead(t) /\ UNCHANGED <<snap, aux_vars>>
    \/ \E t \in Workers : PageIncRefWrite(t) /\ UNCHANGED <<snap, aux_vars>>
    \/ MonoCreate /\ UNCHANGED paged_vars
    \/ \E t \in Workers : MonoInitSequence(t) /\ UNCHANGED paged_vars

IdSpec == Init /\ [][IdNext]_vars

\* The threads whose init_sequence call has been issued an id.
Issued == {t \in Workers : id[t] # NoId}
MonoIssued == {t \in Workers : mono_id[t] # NoId}
\* The ids are pairwise distinct, they are the numbers below num_seqs, and
\* num_seqs counts the calls that were issued one.
FreshIds(ids, issued, n) ==
    /\ \A t, u \in issued : t # u => ids[t] # ids[u]
    /\ {ids[t] : t \in issued} = 0..(n - 1)
    /\ n = Cardinality(issued)

\* C36 (fresh sequence ids): concurrent init_sequence calls on one backend,
\* paged or monolithic, return pairwise distinct ids, and after n completed
\* calls the ids issued are exactly 0..n-1 with num_seqs = n.
C36_FreshIds ==
    /\ FreshIds(id, Issued, num_seqs)
    /\ FreshIds(mono_id, MonoIssued, mono_num_seqs)

\* Every thread's init has returned on the monolithic backend while on the
\* paged one the init that was issued the last id is still inside its attach
\* loop.
C36_Witness ==
    /\ MonoIssued = Workers
    /\ Issued = Workers
    /\ \E t \in Workers : pc[t] = "inc_ref" /\ id[t] = NumWorkers - 1
    /\ \A t \in Workers : id[t] # NumWorkers - 1 => pc[t] = "ready"

\* ------------------------------------------------------------ the two mutexes
\* The workers' calls in every interleaving, as in Spec, with a main thread
\* that calls kv_stats among them, any number of times.  Each worker makes
\* its init_sequence call, one append_token call and one finish_sequence
\* call.

\* The caller of kv_stats has the record and is free to call again.
StatsReturn ==
    /\ Running
    /\ pc[Main] = "stats_done"
    /\ pc' = [pc EXCEPT ![Main] = "join"]
    /\ st' = ZeroStats
    /\ UNCHANGED <<alloc_vars, impl_vars, id, work, calls, finishes, i, p, idx, tmp, ret,
                   gid, shared_tokens, pref, d, fatal>>

LockNext ==
    \/ \E t \in Workers :
          /\ Call(t)
          /\ calls'[t] <= 1
          /\ finishes'[t] <= 1
          /\ UNCHANGED <<snap, aux_vars>>
    \/ StatsLock /\ UNCHANGED <<snap, aux_vars>>
    \/ StatsRead /\ UNCHANGED <<snap, aux_vars>>
    \/ StatsPages /\ UNCHANGED <<snap, aux_vars>>
    \/ StatsReturn /\ UNCHANGED <<snap, aux_vars>>

LockSpec == Init /\ [][LockNext]_vars

\* A thread that holds the allocator mutex holds the backend mutex as well,
\* and a thread that holds a mutex is not kept from its next step by the
\* other mutex being held by a thread that waits: the holder of the
\* allocator mutex can always step, and the holder of the backend mutex can
\* step or waits for the allocator mutex.
NoCircularWait ==
    Running =>
        /\ alloc_mutex # NoThread =>
               /\ mutex = alloc_mutex
               /\ ENABLED (Call(alloc_mutex) /\ UNCHANGED <<snap, aux_vars>>)
        /\ mutex \in Workers =>
               ENABLED (Call(mutex) /\ UNCHANGED <<snap, aux_vars>>)
        /\ mutex = Main => ENABLED (StatsRead /\ UNCHANGED <<snap, aux_vars>>)
\* The step that takes the allocator mutex is taken by a thread that holds
\* the backend mutex already and keeps it; the step that takes the backend
\* mutex is taken with the allocator mutex free or held by another thread's
\* critical section, never by the taker.
BackendBeforeAllocator ==
    \A t \in Threads :
        /\ (alloc_mutex # t /\ alloc_mutex' = t) => mutex = t /\ mutex' = t
        /\ (mutex # t /\ mutex' = t) => alloc_mutex # t /\ alloc_mutex' # t

\* C37 (consistent lock order): whenever a thread holds both mutexes it
\* acquired the backend mutex before the allocator mutex (init, append slow
\* path, finish), no code path acquires the backend mutex while holding the
\* allocator mutex, and therefore no deadlock between the two mutexes is
\* reachable under any interleaving of init_sequence, append_token,
\* finish_sequence and stats.
C37_LockOrder == []NoCircularWait /\ [][BackendBeforeAllocator]_vars

\* paged_stats holds the backend mutex inside its loop while one worker has
\* its init_sequence call still to make and another has stored a token, a
\* prefix being built.
C37_Witness ==
    /\ mutex = Main /\ pc[Main] = "stats_read"
    /\ \E t \in Workers : pc[t] = "start"
    /\ \E u \in Workers : pc[u] = "ready" /\ seqs[id[u]].cur_tokens > 0
    /\ \E g \in DOMAIN groups : groups[g].initialized

\* No empty slot lies below a populated one.
Contiguous(s) ==
    \A j \in DOMAIN s.slots : s.slots[j] # NULL => \A l \in 1..(j - 1) : s.slots[l] # NULL
\* The populated slots are as many as the attached prefix or the tokens need,
\* whichever is more.
SlotsAsNeeded(s) ==
    Populated(s) = Max(AttachedPages(s), CeilDiv(s.cur_tokens, TokensPerPage))
\* No call is in progress on sequence k: its worker is between two calls (or
\* has returned) and paged_destroy is not inside the sequence's finish.
NoCallOn(k) == pc[Owner(k)] \in {"ready", "finished", "done"} /\ ~InFinish(k)

\* The slots of every sequence are contiguous outside a finish_sequence, and
\* as many as needed whenever no call is in progress on the sequence.
ContiguousBetweenCalls ==
    \A k \in DOMAIN seqs :
        /\ ~InFinish(k) => Contiguous(seqs[k])
        /\ NoCallOn(k) => SlotsAsNeeded(seqs[k])

Private(q) == \A g \in DOMAIN groups : ~ListedIn(g, q)
\* A private page in a slot is in that slot alone and, unless its sequence is
\* being finished, has count 1.
PrivateHeldOnce ==
    \A k \in DOMAIN seqs : \A j \in DOMAIN seqs[k].slots :
        (seqs[k].slots[j] # NULL /\ Private(seqs[k].slots[j])) =>
            /\ \A l \in DOMAIN seqs : \A m \in DOMAIN seqs[l].slots :
                   seqs[l].slots[m] = seqs[k].slots[j] => (l = k /\ m = j)
            /\ ~InFinish(k) => ref[seqs[k].slots[j]] = 1
\* No page is in two slots of one sequence.
OneSlotPerPage ==
    \A k \in DOMAIN seqs : \A j, l \in DOMAIN seqs[k].slots :
        (j # l /\ seqs[k].slots[j] # NULL) => seqs[k].slots[j] # seqs[k].slots[l]
\* A page held by two sequences is a prefix page of one group, the only
\* group that lists it, and both sequences took their prefix from that group.
CommonOnlyWithinGroup ==
    \A k, l \in DOMAIN seqs : \A j \in DOMAIN seqs[k].slots :
        (/\ k # l /\ seqs[k].slots[j] # NULL
         /\ \E m \in DOMAIN seqs[l].slots : seqs[l].slots[m] = seqs[k].slots[j]) =>
            \E g \in DOMAIN groups :
                /\ ListedIn(g, seqs[k].slots[j])
                /\ \A h \in DOMAIN groups : ListedIn(h, seqs[k].slots[j]) => h = g
                /\ gid[Owner(k)] = g /\ gid[Owner(l)] = g
\* A private page held in a slot with count 1 stays in that slot with count
\* 1 through every step other than those of a finish_sequence on its
\* sequence.
KeptUntilFinish ==
    \A k \in DOMAIN seqs : \A j \in DOMAIN seqs[k].slots :
        (/\ seqs[k].slots[j] # NULL
         /\ ref[seqs[k].slots[j]] = 1
         /\ ~(seqs'[k].slots[j] = seqs[k].slots[j] /\ ref'[seqs[k].slots[j]] = 1)
         /\ Private(seqs[k].slots[j]))
            => \E t \in Threads : FinishStep(t) /\ FinishTarget(t) = k

ExclusiveHolding == PrivateHeldOnce /\ OneSlotPerPage /\ CommonOnlyWithinGroup

PrintNames == {"Monolithic", "Paged+Prefix"}
\* The largest token count and page count of the statistics printed.
MaxPrintTokens == 6
MaxPrintPages == 3
\* The records run_simulation hands to main: logical_bytes a number of
\* tokens, physical_bytes a number of pages.
StatsChoices ==
    {[logical_tokens |-> k,
      logical_bytes |-> k * bytes_per_token,
      physical_bytes |-> n * page_bytes] : k \in 0..MaxPrintTokens, n \in 0..MaxPrintPages}
\* (double) a / (double) b: 0.0 / 0.0 is not a number.
NaN == [num |-> 0, den |-> 0]
Ratio(a, b) == IF b = 0 THEN NaN ELSE [num |-> a, den |-> b]
\* print_stats, main.c lines 10-24: the heading, the two byte counts, then
\* one line chosen by physical_bytes > logical_bytes.
print_stats(name, s) ==
    IF s.physical_bytes > s.logical_bytes
    THEN LET waste == s.physical_bytes - s.logical_bytes
         IN [name |-> name,
             logical_bytes |-> s.logical_bytes,
             physical_bytes |-> s.physical_bytes,
             line |-> "waste_bytes",
             bytes |-> waste,
             ratio |-> Ratio(waste, s.physical_bytes)]
    ELSE LET saved == s.logical_bytes - s.physical_bytes
         IN [name |-> name,
             logical_bytes |-> s.logical_bytes,
             physical_bytes |-> s.physical_bytes,
             line |-> "memory_saved",
             bytes |-> saved,
             ratio |-> Ratio(saved, s.logical_bytes)]

\* main.c lines 50, 55: KVStats st = run_simulation(...).
MainRun ==
    /\ st' \in StatsChoices
    /\ UNCHANGED <<alloc_vars, impl_vars, pc, local_vars, d, fatal, snap, aux_vars>>
\* main.c lines 51, 56: print_stats(name, &st).
PrintStats ==
    /\ \E name \in PrintNames : out' = print_stats(name, st)
    /\ UNCHANGED <<alloc_vars, impl_vars, pc, local_vars, main_vars, fatal, snap,
                   heap_vars, mono_vars, todo>>
PrintNext == MainRun \/ PrintStats
PrintSpec == Init /\ [][PrintNext]_vars

\* The line print_stats chooses by its test: waste when physical_bytes is
\* above logical_bytes, memory_saved otherwise.
PrintsByStrictTest ==
    out # NoOutput =>
        IF out.physical_bytes > out.logical_bytes
        THEN out.line = "waste_bytes" /\ out.bytes = out.physical_bytes - out.logical_bytes
        ELSE out.line = "memory_saved" /\ out.bytes = out.logical_bytes - out.physical_bytes

\* C40 (print_stats branch selection): for a record with physical_bytes >=
\* logical_bytes the printer reports waste_bytes = physical_bytes -
\* logical_bytes, and it reports memory_saved = logical_bytes -
\* physical_bytes only when physical_bytes < logical_bytes.
C40_PrintBranch ==
    out # NoOutput =>
        /\ out.physical_bytes >= out.logical_bytes =>
               /\ out.line = "waste_bytes"
               /\ out.bytes = out.physical_bytes - out.logical_bytes
        /\ out.line = "memory_saved" =>
               /\ out.physical_bytes < out.logical_bytes
               /\ out.bytes = out.logical_bytes - out.physical_bytes

\* print_stats was given equal, non-zero byte counts and wrote the
\* memory_saved line, with 0 bytes saved.
C40_Witness ==
    /\ out # NoOutput
    /\ out.physical_bytes = out.logical_bytes /\ out.physical_bytes > 0
    /\ out.line = "memory_saved" /\ out.bytes = 0
====
